---- MODULE Spec2Model ----
(***************************************************************************)
(* A model of the data layer of PaystubGen-App: the DataProvider of        *)
(* src/src/context/DataProvider.tsx (second revision in the file, lines    *)
(* 345-912) and the document store it talks to.                            *)
(*                                                                         *)
(* The backing store is a set of documents per collection.  The provider   *)
(* is the React state (teams, items, employees, production: the Aggregate  *)
(* Store; localRates, localProduction, hasChanges: the Draft Overlay), the *)
(* closure arrays and the live subscriptions of the child-subscription     *)
(* effect, and one record per call of an asynchronous operation that is    *)
(* suspended at an await; calls of one operation may overlap.  A step of   *)
(* the model is one task of the event loop: a callback run to its next     *)
(* await, a render of React, or a run of the effects that are due.         *)
(***************************************************************************)
EXTENDS Integers, Sequences, FiniteSets, TLC

(***************************************************************************)
(* Bounds of the model and program constants.                              *)
(***************************************************************************)
\* The longest raw input string typed into a rate or quantity field.
MaxRawLen == 3
\* User operations issued in one run of the team scenario.
TeamOps == 2
\* User operations issued in one run of the delete scenario.
DeleteOps == 2
\* User operations issued in one run of the provisioning scenario.
ProvisionOps == 2
\* Writes of other clients in one run of the merge scenario.
MergeOps == 2
\* User operations issued in one run of the draft scenario.
DraftOps == 3
\* The week runs from Monday (offset 0) to Monday + LastDayOffset (Saturday).
LastDayOffset == 5

WeekDays == 0..LastDayOffset
\* The day columns the modelled user types into.
EditDays == {0, 1}

VARIABLES
  \* ---- backing store ----
  sTeams,          \* documents of /teams
  sItems,          \* documents of /teams/{t}/productionItems
  sEmps,           \* documents of /teams/{t}/employees
  sEntries,        \* documents of /teams/{t}/employees/{e}/dailyProduction
  nextId,          \* the next store-assigned document id
  \* ---- Aggregate Store (React state) ----
  teams, items, employees, production, loading,
  \* ---- child-subscription effect: closure arrays and live listeners ----
  allItems, allEmployees, allProduction, teamsProcessed, totalTeams,
  teamsSub, itemSubs, empSubs, prodSubs,
  \* ---- in-flight team notification handlers ----
  handlers,
  \* ---- Draft Overlay ----
  localRates, localProduction, hasChanges,
  \* ---- React ----
  queued,          \* state updates not rendered yet: state name |-> last value set
  due,             \* the effects whose dependencies the last render changed
  \* ---- suspended asynchronous operations, the calls in call order ----
  dt,              \* deleteTeam
  de,              \* deleteEmployee
  ae,              \* addEmployee
  sv,              \* saveAllChanges
  \* ---- observation ----
  errors,          \* events emitted on the error channel
  last,            \* the operation step taken last, with its inputs and outcome
  savedClean,      \* a save has succeeded and no edit was made since
  shortWeek,       \* Monday 00:00 + 120 h falls before Saturday 00:00 this week
  opsLeft          \* user operations the scenario may still issue

storeVars == <<sTeams, sItems, sEmps, sEntries, nextId>>
aggVars == <<teams, items, employees, production, loading>>
subVars == <<allItems, allEmployees, allProduction, teamsProcessed, totalTeams,
             teamsSub, itemSubs, empSubs, prodSubs>>
draftVars == <<localRates, localProduction, hasChanges, savedClean>>
procVars == <<dt, de, ae, sv, handlers>>
reactVars == <<queued, due>>
vars == <<storeVars, aggVars, subVars, draftVars, procVars, errors, last, opsLeft,
          shortWeek, reactVars>>

(***************************************************************************)
(* Sequences and documents.                                                *)
(***************************************************************************)
Range(s) == {s[k] : k \in 1..Len(s)}

Ids(s) == {s[k].id : k \in 1..Len(s)}

\* Document ids are store-assigned numbers n; a production entry carries the
\* id <<n>>, so that it compares with the overlay's synthesized ids
\* <<"placeholder", e, i, d>> and <<"new", e, i, d>>.
\* The documents of a query snapshot, in document-id order.
SortById(S) ==
  [k \in 1..Cardinality(S) |->
     CHOOSE x \in S : Cardinality({y \in S : y.id < x.id}) = k - 1]

SortEntries(S) ==
  [k \in 1..Cardinality(S) |->
     CHOOSE x \in S : Cardinality({y \in S : y.id[1] < x.id[1]}) = k - 1]

\* The closure array handed to the state setter as it is.
DedupKeepAll(s) == s

\* Array.from(new Map(s.map(x => [x.id, x])).values()): one record per id, at
\* the position of the id's first occurrence, holding its last occurrence.
DedupById(s) ==
  LET idx == [k \in 1..Len(s) |-> k]
      firsts == SelectSeq(idx, LAMBDA k : \A j \in 1..(k - 1) : s[j].id # s[k].id)
      lastOf(k) == CHOOSE j \in k..Len(s) :
                     s[j].id = s[k].id /\ \A m \in (j + 1)..Len(s) : s[m].id # s[k].id
  IN [n \in 1..Len(firsts) |-> s[lastOf(firsts[n])]]

NoDupIds(s) == \A j, k \in 1..Len(s) : s[j].id = s[k].id => j = k

(***************************************************************************)
(* Store queries: what a read or a snapshot of a collection path returns.  *)
(***************************************************************************)
ItemDocs(t) == {d \in sItems : d.path = t}
EmpDocs(t) == {d \in sEmps : d.path = t}
EntryDocs(t, e) == {d \in sEntries : d.path = t /\ d.emp = e}

\* snapshot.docs.map(d => ({id: d.id, ...d.data()}))
TeamData(d) == [id |-> d.id, name |-> d.name]
ItemData(d) == [id |-> d.id, name |-> d.name, payRate |-> d.payRate, teamId |-> d.teamId]
EmpData(d) == [id |-> d.id, teamId |-> d.teamId]
EntryData(d) == [id |-> d.id, employeeId |-> d.employeeId,
                 productionItemId |-> d.productionItemId,
                 date |-> d.date, quantity |-> d.quantity]

MapSeq(s, F(_)) == [k \in 1..Len(s) |-> F(s[k])]

TeamSnapshot == MapSeq(SortById(sTeams), TeamData)
ItemSnapshot(t) == MapSeq(SortById(ItemDocs(t)), ItemData)
EmpSnapshot(t) == MapSeq(SortById(EmpDocs(t)), EmpData)
EntrySnapshot(t, e) == MapSeq(SortEntries(EntryDocs(t, e)), EntryData)

(***************************************************************************)
(* Raw input strings and their parsing.  A raw string is a sequence of     *)
(* characters; a rate is held in units of 1/Scale so that every number a   *)
(* raw string of MaxRawLen characters can spell is an integer.             *)
(***************************************************************************)
Digits == {"1", "2"}
Signs == {"-", "+"}

\* What a raw string is made of: digits, the decimal point, the two signs,
\* the exponent letter, white space, a letter that no number holds, and the
\* word Infinity, which counts as one element of a string.
Chars == Digits \cup Signs \cup {".", "e", " ", "a", "Infinity"}

RECURSIVE Pow10(_)
Pow10(n) == IF n = 0 THEN 1 ELSE 10 * Pow10(n - 1)

Scale == Pow10(MaxRawLen)

\* The IEEE value Infinity: held as a rate above every rate that a raw
\* string spells with digits.
Infinity == 2147483647

RECURSIVE StringsUpTo(_)
StringsUpTo(n) ==
  IF n = 0 THEN {<<>>}
  ELSE LET shorter == StringsUpTo(n - 1)
       IN shorter \cup {Append(s, c) : s \in {x \in shorter : Len(x) = n - 1}, c \in Chars}

RawStrings == StringsUpTo(MaxRawLen)

DigitVal(c) == IF c = "1" THEN 1 ELSE 2

RECURSIVE TakeDigits(_)
\* The longest run of digits a string starts with.
TakeDigits(s) ==
  IF s = <<>> \/ Head(s) \notin Digits THEN <<>>
  ELSE <<Head(s)>> \o TakeDigits(Tail(s))

RECURSIVE DigitsValue(_)
DigitsValue(ds) ==
  IF ds = <<>> THEN 0
  ELSE 10 * DigitsValue(SubSeq(ds, 1, Len(ds) - 1)) + DigitVal(ds[Len(ds)])

Drop(s, n) == SubSeq(s, n + 1, Len(s))

RECURSIVE TrimStart(_)
\* Both parsers skip the white space a string starts with.
TrimStart(s) == IF s # <<>> /\ Head(s) = " " THEN TrimStart(Tail(s)) ELSE s

NaN == [nan |-> TRUE, val |-> 0]
Num(v) == [nan |-> FALSE, val |-> v]

\* parseInt(value, 10): leading white space is skipped; then an optional
\* sign and the digits that follow it; NaN when there is no digit there.
\* Whatever follows the digits is ignored.
ParseInt(s) ==
  LET t == TrimStart(s)
      neg == t # <<>> /\ Head(t) = "-"
      body == IF t # <<>> /\ Head(t) \in Signs THEN Tail(t) ELSE t
      ds == TakeDigits(body)
  IN IF ds = <<>> THEN NaN
     ELSE Num(IF neg THEN 0 - DigitsValue(ds) ELSE DigitsValue(ds))

\* parseFloat(value): leading white space is skipped; then an optional sign
\* and the longest decimal literal that follows it: the word Infinity, or
\* digits, an optional point and digits (one digit at least) with an
\* optional exponent part (e, an optional sign, one digit at least); NaN
\* when there is none.  Whatever follows the literal is ignored.  The value
\* is in units of 1/Scale.
ParseFloat(s) ==
  LET t == TrimStart(s)
      neg == t # <<>> /\ Head(t) = "-"
      body == IF t # <<>> /\ Head(t) \in Signs THEN Tail(t) ELSE t
      ip == TakeDigits(body)
      after == Drop(body, Len(ip))
      point == after # <<>> /\ Head(after) = "."
      fp == IF point THEN TakeDigits(Tail(after)) ELSE <<>>
      rest == IF point THEN Drop(after, 1 + Len(fp)) ELSE after
      etail == IF rest # <<>> /\ Head(rest) = "e" THEN Tail(rest) ELSE <<>>
      eneg == etail # <<>> /\ Head(etail) = "-"
      ed == TakeDigits(IF etail # <<>> /\ Head(etail) \in Signs THEN Tail(etail) ELSE etail)
      mant == DigitsValue(ip) * Scale + DigitsValue(fp) * (Scale \div Pow10(Len(fp)))
      mag == IF body # <<>> /\ Head(body) = "Infinity" THEN Infinity
             ELSE IF ed = <<>> THEN mant
             ELSE IF eneg THEN mant \div Pow10(DigitsValue(ed))
             ELSE mant * Pow10(DigitsValue(ed))
  IN IF (body = <<>> \/ Head(body) # "Infinity") /\ ip = <<>> /\ fp = <<>> THEN NaN
     ELSE Num(IF neg THEN 0 - mag ELSE mag)

\* parseFloat(newRate) || 0
RateOf(raw) == LET r == ParseFloat(raw) IN IF r.nan \/ r.val = 0 THEN 0 ELSE r.val

\* const quantity = parseInt(value, 10);
\* const finalQuantity = isNaN(quantity) ? 0 : quantity;
QuantityOf(raw) == LET r == ParseInt(raw) IN IF r.nan THEN 0 ELSE r.val

(***************************************************************************)
(* Draft Overlay: the reset effect (DataProvider.tsx 521-561).             *)
(***************************************************************************)
HasTriple(s, e, i, d) ==
  \E k \in 1..Len(s) :
    s[k].employeeId = e /\ s[k].productionItemId = i /\ s[k].date = d

PlaceholderId(e, i, d) == <<"placeholder", e, i, d>>
NewId(e, i, d) == <<"new", e, i, d>>
IsLocalId(id) == Len(id) = 4

Placeholder(e, i, d) ==
  [id |-> PlaceholderId(e, i, d), employeeId |-> e, productionItemId |-> i,
   date |-> d, quantity |-> 0]

\* The cells the three nested loops visit, in loop order: employee, then
\* the items of the employee's team, then the days of the week.  The days
\* are those from weekStart to weekStart.getTime() + 5 * 24 h: Monday to
\* Saturday, and Monday to Friday in a week in which the clocks go back.
Cells(emps, its) ==
  LET days == IF shortWeek THEN LastDayOffset ELSE LastDayOffset + 1
      n == Len(emps) * Len(its) * days
      cell(k) == [e |-> emps[((k - 1) \div (Len(its) * days)) + 1],
                  i |-> its[(((k - 1) \div days) % Len(its)) + 1],
                  d |-> (k - 1) % days]
      all == [k \in 1..n |-> cell(k)]
  IN SelectSeq(all, LAMBDA c : c.i.teamId = c.e.teamId)

\* The loops add a placeholder for a cell unless an entry or an earlier
\* placeholder has its (employee, item, date).
FillEmployees(acc, emps, its) ==
  LET cells == Cells(emps, its)
      idx == [k \in 1..Len(cells) |-> k]
      same(a, b) == a.e.id = b.e.id /\ a.i.id = b.i.id /\ a.d = b.d
      missing == SelectSeq(idx, LAMBDA k :
                   /\ ~HasTriple(acc, cells[k].e.id, cells[k].i.id, cells[k].d)
                   /\ \A j \in 1..(k - 1) : ~same(cells[j], cells[k]))
  IN acc \o [n \in 1..Len(missing) |->
              Placeholder(cells[missing[n]].e.id, cells[missing[n]].i.id, cells[missing[n]].d)]

\* items.forEach(item => initialRates[item.id] = item.payRate)
InitialRates(its) ==
  [i \in Ids(its) |->
     LET ks == {k \in 1..Len(its) : its[k].id = i}
     IN its[CHOOSE k \in ks : \A j \in ks : j <= k].payRate]

\* production.forEach(p => initialProduction[p.id] = {...p}), then one
\* placeholder for every (employee, team item, weekday) without an entry.
InitialProduction(its, prod, emps) == FillEmployees(DedupById(prod), emps, its)

\* The effect of the dependency list [items, production, employees]: the
\* three setter calls it makes, for the arrays of the render it runs after.
ResetOverlay(its, prod, emps) ==
  [localRates |-> InitialRates(its),
   localProduction |-> InitialProduction(its, prod, emps),
   hasChanges |-> FALSE]

(***************************************************************************)
(* Subscription Tree Manager: the child-subscription effect                *)
(* (DataProvider.tsx 694-769) and its snapshot callbacks.                  *)
(***************************************************************************)
\* The collection paths the listeners and the operations name.
ItemsPath(t) == <<"teams", t, "productionItems">>
EmployeesPath(t) == <<"teams", t, "employees">>
ProductionPath(t, e) == <<"teams", t, "employees", e, "dailyProduction">>

NotYet == [got |-> FALSE, docs |-> <<>>]
Got(docs) == [got |-> TRUE, docs |-> docs]

\* A listener whose error callback has fired delivers nothing any more; it
\* keeps the record of what it had delivered.
Dead(sub) == [got |-> sub.got, docs |-> sub.docs, dead |-> TRUE]
IsDead(sub) == "dead" \in DOMAIN sub

Pending(sub, now) == ~IsDead(sub) /\ (~sub.got \/ sub.docs # now)

\* The provider has been discarded (unmounted): React drops every later
\* setState of it, and its effects run no more.
Discarded == "discarded" \in DOMAIN teamsSub

\* const otherTeamItems = allItems.filter(i => i.teamId !== team.id);
\* allItems.splice(0, allItems.length, ...otherTeamItems, ...teamItems);
MergeByTeam(all, t, snap) == SelectSeq(all, LAMBDA x : x.teamId # t) \o snap

\* const otherEmpProduction = allProduction.filter(p => p.employeeId !== empId);
\* allProduction.splice(0, allProduction.length, ...otherEmpProduction, ...empProduction);
MergeByEmployee(all, e, snap) == SelectSeq(all, LAMBDA x : x.employeeId # e) \o snap

\* A cleanup that cancels the item and employee listeners but misses the
\* production listeners, which were opened later from employee callbacks.
RunChildEffectKeepingProduction(tms) ==
  /\ allItems' = <<>>
  /\ allEmployees' = <<>>
  /\ allProduction' = <<>>
  /\ teamsProcessed' = 0
  /\ totalTeams' = Len(tms)
  /\ UNCHANGED prodSubs
  /\ IF tms = <<>>
       THEN /\ itemSubs' = <<>>
            /\ empSubs' = <<>>
       ELSE /\ itemSubs' = [t \in Ids(tms) |-> NotYet]
            /\ empSubs' = [t \in Ids(tms) |-> NotYet]

\* The cleanup of the previous run of the child-subscription effect followed
\* by its new run for the teams tms of the render it runs after: fresh
\* closure arrays and counters, and one item listener and one employee
\* listener per team.
RunChildEffect(tms) ==
  /\ allItems' = <<>>
  /\ allEmployees' = <<>>
  /\ allProduction' = <<>>
  /\ teamsProcessed' = 0
  /\ totalTeams' = Len(tms)
  /\ prodSubs' = <<>>
  /\ IF tms = <<>>
       THEN /\ itemSubs' = <<>>
            /\ empSubs' = <<>>
       ELSE /\ itemSubs' = [t \in Ids(tms) |-> NotYet]
            /\ empSubs' = [t \in Ids(tms) |-> NotYet]

\* The setter calls of that run: the empty branch (695-701) or
\* setLoading(true) (704).
ChildEffectUpdates(tms) ==
  IF tms = <<>>
    THEN [employees |-> <<>>, items |-> <<>>, production |-> <<>>, loading |-> FALSE]
    ELSE [loading |-> TRUE]

(***************************************************************************)
(* React state updates and effects.  A state setter called from a listener *)
(* callback, from the continuation of an await or from an effect changes   *)
(* nothing the provider shows: React queues the update, and a render, a    *)
(* task of its own, applies the queue.  An effect whose dependency a       *)
(* render has changed is due after that render; it runs in a later task,   *)
(* or at the start of the next render when that comes first.  A setter     *)
(* called from a user's event is rendered before the event returns, with   *)
(* everything queued, and the effects due after such a render run before   *)
(* the event returns as well.  The setter calls of a discarded provider    *)
(* are dropped.                                                            *)
(***************************************************************************)
NoUpdates == <<>>

\* The value of the state called name once the queue q is rendered.
Latest(q, name, shown) == IF name \in DOMAIN q THEN q[name] ELSE shown

\* The setter calls of the effects in d, run after a render that shows
\* tms, its, prod and emps.
EffectUpdates(d, tms, its, prod, emps) ==
  (IF "child" \in d THEN ChildEffectUpdates(tms) ELSE NoUpdates)
    @@ (IF "reset" \in d THEN ResetOverlay(its, prod, emps) ELSE NoUpdates)

\* The effects a render of the queue q leaves due: the child-subscription
\* effect depends on teams, the reset effect on items, production and
\* employees, and every setter call of those passes a new array.
DueAfter(q) ==
  (IF "teams" \in DOMAIN q THEN {"child"} ELSE {})
    \cup (IF DOMAIN q \cap {"items", "production", "employees"} # {} THEN {"reset"} ELSE {})

\* The closures and listeners of the child-subscription effect after a step
\* in which it ran, for the teams tms, or did not run.
ChildEffect(ran, tms) ==
  IF ran
    THEN RunChildEffect(tms)
    ELSE UNCHANGED <<allItems, allEmployees, allProduction, teamsProcessed, totalTeams,
                     itemSubs, empSubs, prodSubs>>

\* The render of the queue q: every state gets the value last set for it.
Show(q) ==
  /\ teams' = Latest(q, "teams", teams)
  /\ items' = Latest(q, "items", items)
  /\ employees' = Latest(q, "employees", employees)
  /\ production' = Latest(q, "production", production)
  /\ loading' = Latest(q, "loading", loading)
  /\ localRates' = Latest(q, "localRates", localRates)
  /\ localProduction' = Latest(q, "localProduction", localProduction)
  /\ hasChanges' = Latest(q, "hasChanges", hasChanges)

\* What a step that ran the effects in d records of it.
EffectsRun(op, d) ==
  IF "child" \in d
    THEN [op |-> op, ran |-> d, closedItemSubs |-> DOMAIN itemSubs,
          closedEmpSubs |-> DOMAIN empSubs, closedProdSubs |-> DOMAIN prodSubs]
    ELSE [op |-> op, ran |-> d]

\* React renders what the callbacks and effects have queued; the effects
\* still due run first, and their updates are rendered with the rest.
Render ==
  /\ DOMAIN queued # {}
  /\ LET q == EffectUpdates(due, teams, items, production, employees) @@ queued
     IN /\ Show(q)
        /\ due' = DueAfter(q)
  /\ queued' = NoUpdates
  /\ ChildEffect("child" \in due, teams)
  /\ last' = EffectsRun("render", due)
  /\ UNCHANGED <<storeVars, teamsSub, savedClean, procVars, errors, opsLeft, shortWeek>>

\* The task in which the effects due after a render run.
RunEffects ==
  /\ due # {}
  /\ queued' = EffectUpdates(due, teams, items, production, employees) @@ queued
  /\ due' = {}
  /\ ChildEffect("child" \in due, teams)
  /\ last' = EffectsRun("effects", due)
  /\ UNCHANGED <<storeVars, aggVars, teamsSub, draftVars, procVars, errors, opsLeft,
                 shortWeek>>

\* A user's event whose handler made the setter calls own, on a provider
\* that is not discarded: the effects still due run, React renders own
\* with everything queued, and the effects then due run.
RenderEvent(own) ==
  LET q == EffectUpdates(due, teams, items, production, employees) @@ (own @@ queued)
      after == DueAfter(q)
  IN /\ Show(q)
     /\ queued' = EffectUpdates(after, Latest(q, "teams", teams), Latest(q, "items", items),
                                Latest(q, "production", production),
                                Latest(q, "employees", employees))
     /\ due' = {}
     /\ ChildEffect("child" \in due \cup after, Latest(q, "teams", teams))

\* The arrays last passed to setItems, setEmployees and setProduction: what
\* the Aggregate Store shows once React has rendered what is queued.
PublishedItems == Latest(queued, "items", items)
PublishedEmployees == Latest(queued, "employees", employees)
PublishedProduction == Latest(queued, "production", production)

\* The Aggregate Store a render of the queue q shows.
Rendered(q) ==
  <<Latest(q, "teams", teams), Latest(q, "items", items), Latest(q, "employees", employees),
    Latest(q, "production", production), Latest(q, "loading", loading)>>

\* onSnapshot(itemsQuery, ...) of team t delivers the collection as it is now.
ItemsSnapshot(t) ==
  /\ t \in DOMAIN itemSubs
  /\ Pending(itemSubs[t], ItemSnapshot(t))
  /\ LET snap == ItemSnapshot(t)
         all == MergeByTeam(allItems, t, snap)
     IN /\ allItems' = all
        /\ queued' = [items |-> DedupById(all)] @@ queued
        /\ itemSubs' = [itemSubs EXCEPT ![t] = Got(snap)]
  /\ last' = [op |-> "itemsSnapshot", team |-> t]
  /\ UNCHANGED <<storeVars, aggVars, allEmployees, allProduction, teamsProcessed,
                 totalTeams, teamsSub, empSubs, prodSubs, draftVars, procVars, errors,
                 opsLeft>>
  /\ UNCHANGED <<shortWeek, due>>

\* An employee callback that opens production listeners for the employees
\* of its first snapshot only.
EmployeesSnapshotFirstOnly(t) ==
  /\ t \in DOMAIN empSubs
  /\ Pending(empSubs[t], EmpSnapshot(t))
  /\ LET snap == EmpSnapshot(t)
         before == Ids(empSubs[t].docs)
         added == IF empSubs[t].got THEN {} ELSE Ids(snap)
         removed == before \ Ids(snap)
         all == MergeByTeam(allEmployees, t, snap)
         prod == SelectSeq(allProduction, LAMBDA p : p.employeeId \notin removed)
         done == teamsProcessed + 1
     IN /\ allEmployees' = all
        /\ allProduction' = prod
        /\ queued' = (IF done >= totalTeams THEN [loading |-> FALSE] ELSE NoUpdates)
                       @@ (IF removed = {} THEN NoUpdates
                           ELSE [production |-> DedupById(prod)])
                       @@ [employees |-> DedupById(all)] @@ queued
        /\ prodSubs' = [p \in DOMAIN prodSubs \cup {<<t, e>> : e \in added} |->
                          IF p \in DOMAIN prodSubs THEN prodSubs[p] ELSE NotYet]
        /\ empSubs' = [empSubs EXCEPT ![t] = Got(snap)]
        /\ teamsProcessed' = done
        /\ last' = [op |-> "employeesSnapshot", team |-> t, added |-> added,
                    removed |-> removed]
  /\ UNCHANGED <<storeVars, aggVars, allItems, totalTeams, teamsSub, itemSubs, draftVars,
                 procVars, errors, opsLeft>>
  /\ UNCHANGED <<shortWeek, due>>

\* An employee callback that counts its team as processed only when the
\* snapshot holds at least one employee.
EmployeesSnapshotCountingNonEmpty(t) ==
  /\ t \in DOMAIN empSubs
  /\ Pending(empSubs[t], EmpSnapshot(t))
  /\ LET snap == EmpSnapshot(t)
         before == Ids(empSubs[t].docs)
         added == Ids(snap) \ before
         removed == before \ Ids(snap)
         all == MergeByTeam(allEmployees, t, snap)
         prod == SelectSeq(allProduction, LAMBDA p : p.employeeId \notin removed)
         done == IF snap # <<>> THEN teamsProcessed + 1 ELSE teamsProcessed
     IN /\ allEmployees' = all
        /\ allProduction' = prod
        /\ queued' = (IF done >= totalTeams THEN [loading |-> FALSE] ELSE NoUpdates)
                       @@ (IF removed = {} THEN NoUpdates
                           ELSE [production |-> DedupById(prod)])
                       @@ [employees |-> DedupById(all)] @@ queued
        /\ prodSubs' = [p \in DOMAIN prodSubs \cup {<<t, e>> : e \in added} |->
                          IF p \in DOMAIN prodSubs THEN prodSubs[p] ELSE NotYet]
        /\ empSubs' = [empSubs EXCEPT ![t] = Got(snap)]
        /\ teamsProcessed' = done
        /\ last' = [op |-> "employeesSnapshot", team |-> t, added |-> added,
                    removed |-> removed]
  /\ UNCHANGED <<storeVars, aggVars, allItems, totalTeams, teamsSub, itemSubs, draftVars,
                 procVars, errors, opsLeft>>
  /\ UNCHANGED <<shortWeek, due>>

\* onSnapshot(empQuery, ...) of team t: the merge, then one production
\* listener for every added employee and a purge for every removed one.
EmployeesSnapshot(t) ==
  /\ t \in DOMAIN empSubs
  /\ Pending(empSubs[t], EmpSnapshot(t))
  /\ LET snap == EmpSnapshot(t)
         before == Ids(empSubs[t].docs)
         added == Ids(snap) \ before
         removed == before \ Ids(snap)
         all == MergeByTeam(allEmployees, t, snap)
         prod == SelectSeq(allProduction, LAMBDA p : p.employeeId \notin removed)
         done == teamsProcessed + 1
     IN /\ allEmployees' = all
        /\ allProduction' = prod
        /\ queued' = (IF done >= totalTeams THEN [loading |-> FALSE] ELSE NoUpdates)
                       @@ (IF removed = {} THEN NoUpdates
                           ELSE [production |-> DedupById(prod)])
                       @@ [employees |-> DedupById(all)] @@ queued
        /\ prodSubs' = [p \in DOMAIN prodSubs \cup {<<t, e>> : e \in added} |->
                          IF p \in DOMAIN prodSubs THEN prodSubs[p] ELSE NotYet]
        /\ empSubs' = [empSubs EXCEPT ![t] = Got(snap)]
        /\ teamsProcessed' = done
        /\ last' = [op |-> "employeesSnapshot", team |-> t, added |-> added,
                    removed |-> removed]
  /\ UNCHANGED <<storeVars, aggVars, allItems, totalTeams, teamsSub, itemSubs, draftVars,
                 procVars, errors, opsLeft>>
  /\ UNCHANGED <<shortWeek, due>>

\* onSnapshot(prodQuery, ...) of employee e of team t.
ProductionSnapshot(t, e) ==
  /\ <<t, e>> \in DOMAIN prodSubs
  /\ Pending(prodSubs[<<t, e>>], EntrySnapshot(t, e))
  /\ LET snap == EntrySnapshot(t, e)
         all == MergeByEmployee(allProduction, e, snap)
     IN /\ allProduction' = all
        /\ queued' = [production |-> DedupById(all)] @@ queued
        /\ prodSubs' = [prodSubs EXCEPT ![<<t, e>>] = Got(snap)]
  /\ last' = [op |-> "productionSnapshot", team |-> t, employee |-> e]
  /\ UNCHANGED <<storeVars, aggVars, allItems, allEmployees, teamsProcessed, totalTeams,
                 teamsSub, itemSubs, empSubs, draftVars, procVars, errors, opsLeft>>
  /\ UNCHANGED <<shortWeek, due>>

\* An error callback that also drops the team's items from the closure
\* array and from the Aggregate Store.
ItemsSnapshotErrorClearing(t) ==
  /\ opsLeft > 0
  /\ t \in DOMAIN itemSubs
  /\ ~IsDead(itemSubs[t])
  /\ itemSubs' = [itemSubs EXCEPT ![t] = Dead(itemSubs[t])]
  /\ allItems' = MergeByTeam(allItems, t, <<>>)
  /\ queued' = [items |-> DedupById(MergeByTeam(allItems, t, <<>>))] @@ queued
  /\ errors' = Append(errors, [operation |-> "list", path |-> ItemsPath(t)])
  /\ opsLeft' = opsLeft - 1
  /\ last' = [op |-> "itemsSnapshotError", team |-> t]
  /\ UNCHANGED <<storeVars, aggVars, allEmployees, allProduction, teamsProcessed,
                 totalTeams, teamsSub, empSubs, prodSubs, draftVars, procVars>>
  /\ UNCHANGED <<shortWeek, due>>

\* The error callback of the item listener of team t:
\* err => handleSnapshotError(err, `teams/${team.id}/productionItems`).
ItemsSnapshotError(t) ==
  /\ opsLeft > 0
  /\ t \in DOMAIN itemSubs
  /\ ~IsDead(itemSubs[t])
  /\ itemSubs' = [itemSubs EXCEPT ![t] = Dead(itemSubs[t])]
  /\ errors' = Append(errors, [operation |-> "list", path |-> ItemsPath(t)])
  /\ opsLeft' = opsLeft - 1
  /\ last' = [op |-> "itemsSnapshotError", team |-> t]
  /\ UNCHANGED <<storeVars, aggVars, allItems, allEmployees, allProduction, teamsProcessed,
                 totalTeams, teamsSub, empSubs, prodSubs, draftVars, procVars>>
  /\ UNCHANGED <<shortWeek, queued, due>>

\* The error callback of the employee listener of team t.
EmployeesSnapshotError(t) ==
  /\ opsLeft > 0
  /\ t \in DOMAIN empSubs
  /\ ~IsDead(empSubs[t])
  /\ empSubs' = [empSubs EXCEPT ![t] = Dead(empSubs[t])]
  /\ errors' = Append(errors, [operation |-> "list", path |-> EmployeesPath(t)])
  /\ opsLeft' = opsLeft - 1
  /\ last' = [op |-> "employeesSnapshotError", team |-> t]
  /\ UNCHANGED <<storeVars, aggVars, allItems, allEmployees, allProduction, teamsProcessed,
                 totalTeams, teamsSub, itemSubs, prodSubs, draftVars, procVars>>
  /\ UNCHANGED <<shortWeek, queued, due>>

\* The error callback of the production listener of employee e of team t.
ProductionSnapshotError(t, e) ==
  /\ opsLeft > 0
  /\ <<t, e>> \in DOMAIN prodSubs
  /\ ~IsDead(prodSubs[<<t, e>>])
  /\ prodSubs' = [prodSubs EXCEPT ![<<t, e>>] = Dead(prodSubs[<<t, e>>])]
  /\ errors' = Append(errors, [operation |-> "list", path |-> ProductionPath(t, e)])
  /\ opsLeft' = opsLeft - 1
  /\ last' = [op |-> "productionSnapshotError", team |-> t, employee |-> e]
  /\ UNCHANGED <<storeVars, aggVars, allItems, allEmployees, allProduction, teamsProcessed,
                 totalTeams, teamsSub, itemSubs, empSubs, draftVars, procVars>>
  /\ UNCHANGED <<shortWeek, queued, due>>

(***************************************************************************)
(* The team-collection listener (DataProvider.tsx 612-692): the branch for *)
(* a non-empty snapshot, and the item backfill pass that follows it.       *)
(***************************************************************************)
\* defaultItems: name and payRate of the default catalog of a team type.
\* team.name.includes('Corazones') ? 'Corazones' : 'Hojas', over the team
\* names of the scenarios.
ItemType(name) ==
  IF name \in {"Corazones", "Corazones Salitre", "Corazones agua caliente"}
    THEN "Corazones" ELSE "Hojas"

DefaultItems(name) ==
  IF ItemType(name) = "Corazones"
    THEN << <<"Chico", 10>>, <<"Mediano", 12>>, <<"Grande", 14>>, <<"Mini", 10>> >>
    ELSE << <<"Blanca", 13>>, <<"Capote", 8>>, <<"Tira", 6>> >>

\* The documents itemsToCreate.forEach(...) puts in the batch for one team,
\* with store-assigned ids from base on.
CatalogDocs(team, base) ==
  LET cat == DefaultItems(team.name)
  IN {[id |-> base + k - 1, path |-> team.id, teamId |-> team.id,
       name |-> cat[k][1], payRate |-> cat[k][2] * Scale] : k \in 1..Len(cat)}

RECURSIVE BackfillDocs(_, _)
BackfillDocs(adds, base) ==
  IF adds = <<>> THEN {}
  ELSE CatalogDocs(Head(adds), base)
         \cup BackfillDocs(Tail(adds), base + Len(DefaultItems(Head(adds).name)))

RemoveAt(s, k) == SubSeq(s, 1, k - 1) \o SubSeq(s, k + 1, Len(s))

\* A team notification with at least one team: setTeams(teamsData), then
\* the first server read of the backfill loop is issued.
TeamsSnapshot ==
  /\ teamsSub.live
  /\ Pending(teamsSub, TeamSnapshot)
  /\ TeamSnapshot # <<>>
  /\ queued' = [teams |-> TeamSnapshot] @@ queued
  /\ teamsSub' = [live |-> TRUE, got |-> TRUE, docs |-> TeamSnapshot]
  /\ handlers' = Append(handlers, [pc |-> "backfill", todo |-> TeamSnapshot,
                                   need |-> FALSE, adds |-> <<>>])
  /\ last' = [op |-> "teamsSnapshot"]
  /\ UNCHANGED <<storeVars, aggVars, allItems, allEmployees, allProduction,
                 teamsProcessed, totalTeams, itemSubs, empSubs, prodSubs, draftVars, dt,
                 ae, sv, errors, opsLeft, de>>
  /\ UNCHANGED <<shortWeek, due>>

\* A pass that reads every team's items and never finds a catalog missing.
BackfillReadSkipping(k) ==
  /\ k \in 1..Len(handlers)
  /\ handlers[k].pc = "backfill"
  /\ LET rest == Tail(handlers[k].todo)
     IN IF rest # <<>>
          THEN /\ handlers' = [handlers EXCEPT ![k] = [handlers[k] EXCEPT !.todo = rest]]
               /\ UNCHANGED queued
          ELSE /\ handlers' = RemoveAt(handlers, k)
               /\ queued' = IF Discarded THEN queued ELSE [loading |-> FALSE] @@ queued
  /\ last' = [op |-> "backfillRead"]
  /\ UNCHANGED <<storeVars, aggVars, subVars, draftVars, dt, de, ae, sv, errors, opsLeft>>
  /\ UNCHANGED <<shortWeek, due>>

\* await getDocsFromServer(productionItems of the next team) returns; after
\* the last team the handler commits the backfill batch or clears loading.
BackfillRead(k) ==
  /\ k \in 1..Len(handlers)
  /\ handlers[k].pc = "backfill"
  /\ LET h == handlers[k]
         team == Head(h.todo)
         empty == ItemDocs(team.id) = {}
         adds == IF empty THEN Append(h.adds, team) ELSE h.adds
         need == h.need \/ empty
         rest == Tail(h.todo)
     IN IF rest # <<>>
          THEN /\ handlers' = [handlers EXCEPT ![k] =
                                 [pc |-> "backfill", todo |-> rest, need |-> need, adds |-> adds]]
               /\ UNCHANGED queued
          ELSE IF need
                 THEN /\ handlers' = [handlers EXCEPT ![k] =
                                        [pc |-> "commit", todo |-> rest, need |-> need, adds |-> adds]]
                      /\ UNCHANGED queued
                 ELSE /\ handlers' = RemoveAt(handlers, k)
                      /\ queued' = IF Discarded THEN queued
                                   ELSE [loading |-> FALSE] @@ queued
  /\ last' = [op |-> "backfillRead"]
  /\ UNCHANGED <<storeVars, aggVars, subVars, draftVars, dt, ae, sv, errors, opsLeft, de>>
  /\ UNCHANGED <<shortWeek, due>>

\* A commit step that drops its batch and starts the backfill pass again
\* from the teams shown.
BackfillCommitRetrying(k) ==
  /\ k \in 1..Len(handlers)
  /\ handlers[k].pc = "commit"
  /\ handlers' = [handlers EXCEPT ![k] =
                    [pc |-> "backfill", todo |-> teams, need |-> FALSE, adds |-> <<>>]]
  /\ teams # <<>>
  /\ last' = [op |-> "backfillCommit"]
  /\ UNCHANGED <<storeVars, aggVars, subVars, draftVars, dt, ae, sv, errors, opsLeft, de>>
  /\ UNCHANGED <<shortWeek, queued, due>>

\* await itemCreationBatch.commit() resolves: the default catalogs exist.
BackfillCommit(k) ==
  /\ k \in 1..Len(handlers)
  /\ handlers[k].pc = "commit"
  /\ LET docs == BackfillDocs(handlers[k].adds, nextId)
     IN /\ sItems' = sItems \cup docs
        /\ nextId' = nextId + Cardinality(docs)
  /\ handlers' = RemoveAt(handlers, k)
  /\ last' = [op |-> "backfillCommit"]
  /\ UNCHANGED <<sTeams, sEmps, sEntries, aggVars, subVars, draftVars, dt, ae, sv,
                 errors, opsLeft, de>>
  /\ UNCHANGED <<shortWeek, queued, due>>

(***************************************************************************)
(* Bootstrap Seeder: the branch of the team listener for an empty          *)
(* notification (DataProvider.tsx 621-651).                                *)
(***************************************************************************)
\* collection(firestore, 'teams')
TeamsPath == <<"teams">>

\* defaultTeams
DefaultTeams ==
  <<"Corazones Salitre", "Corazones agua caliente", "Hojas Salitre", "Hojas Estanzuela">>

\* The loop over defaultTeams: a team reference with a generated id, then
\* the references of its catalog, for each default team in turn.
RECURSIVE SeedTeams(_, _)
SeedTeams(names, base) ==
  IF names = <<>> THEN <<>>
  ELSE <<[id |-> base, name |-> Head(names)]>>
         \o SeedTeams(Tail(names), base + 1 + Len(DefaultItems(Head(names))))

SeedItemDocs(newTeams) ==
  UNION {CatalogDocs(newTeams[k], newTeams[k].id + 1) : k \in 1..Len(newTeams)}

SeedSize(newTeams) == Len(newTeams) + Cardinality(SeedItemDocs(newTeams))

\* A team notification without a team: the handler issues the server read
\* of the collection and waits for it.
TeamsSnapshotEmpty ==
  /\ teamsSub.live
  /\ Pending(teamsSub, TeamSnapshot)
  /\ TeamSnapshot = <<>>
  /\ teamsSub' = [live |-> TRUE, got |-> TRUE, docs |-> <<>>]
  /\ handlers' = Append(handlers, [pc |-> "seedRead"])
  /\ last' = [op |-> "teamsSnapshot", empty |-> TRUE]
  /\ UNCHANGED <<storeVars, aggVars, allItems, allEmployees, allProduction, teamsProcessed,
                 totalTeams, itemSubs, empSubs, prodSubs, draftVars, dt, ae, sv, errors,
                 opsLeft, de>>
  /\ UNCHANGED <<shortWeek, queued, due>>

\* A handler that goes on to its backfill loop without setTeams, leaving
\* the teams to the next notification.
ContinueWithoutSetTeams(k, teamsData) ==
  /\ UNCHANGED queued
  /\ handlers' = [handlers EXCEPT ![k] =
                    [pc |-> "backfill", todo |-> teamsData, need |-> FALSE, adds |-> <<>>]]

\* The handler goes on with teamsData: setTeams(teamsData), dropped when
\* the provider is gone, and the backfill loop.
ContinueWith(k, teamsData) ==
  /\ queued' = IF Discarded THEN queued ELSE [teams |-> teamsData] @@ queued
  /\ handlers' = [handlers EXCEPT ![k] =
                    [pc |-> "backfill", todo |-> teamsData, need |-> FALSE, adds |-> <<>>]]

\* getDocsFromServerNonBlocking returns the collection with at least one
\* team in it: nothing is seeded.
SeedReadFound(k) ==
  /\ k \in 1..Len(handlers)
  /\ handlers[k].pc = "seedRead"
  /\ TeamSnapshot # <<>>
  /\ ContinueWith(k, TeamSnapshot)
  /\ last' = [op |-> "seedRead", read |-> "found"]
  /\ UNCHANGED <<storeVars, aggVars, subVars, draftVars, dt, ae, sv, errors, opsLeft, de>>
  /\ UNCHANGED <<shortWeek, due>>

\* getDocsFromServerNonBlocking returns the collection empty: the batch of
\* default teams and catalogs is built and its commit issued.
SeedReadEmpty(k) ==
  /\ k \in 1..Len(handlers)
  /\ handlers[k].pc = "seedRead"
  /\ TeamSnapshot = <<>>
  /\ LET newTeams == SeedTeams(DefaultTeams, nextId)
     IN /\ handlers' = [handlers EXCEPT ![k] =
                          [pc |-> "seedCommit", read |-> "empty", newTeams |-> newTeams]]
        /\ nextId' = nextId + SeedSize(newTeams)
  /\ last' = [op |-> "seedRead", read |-> "empty"]
  /\ UNCHANGED <<sTeams, sItems, sEmps, sEntries, aggVars, subVars, draftVars, dt, ae, sv,
                 errors, opsLeft, de>>
  /\ UNCHANGED <<shortWeek, queued, due>>

\* getDocsFromServer throws inside getDocsFromServerNonBlocking: one "list"
\* error event, and the value returned has empty = true whatever the
\* collection holds, so the batch is built and its commit issued.
SeedReadFailed(k) ==
  /\ k \in 1..Len(handlers)
  /\ handlers[k].pc = "seedRead"
  /\ errors' = Append(errors, [operation |-> "list", path |-> TeamsPath])
  /\ LET newTeams == SeedTeams(DefaultTeams, nextId)
     IN /\ handlers' = [handlers EXCEPT ![k] =
                          [pc |-> "seedCommit", read |-> "failed", newTeams |-> newTeams]]
        /\ nextId' = nextId + SeedSize(newTeams)
  /\ last' = [op |-> "seedRead", read |-> "failed"]
  /\ UNCHANGED <<sTeams, sItems, sEmps, sEntries, aggVars, subVars, draftVars, dt, ae, sv,
                 opsLeft, de>>
  /\ UNCHANGED <<shortWeek, queued, due>>

\* await batch.commit() resolves: the default teams and their catalogs
\* exist; teamsData = newTeams.
SeedCommit(k) ==
  /\ k \in 1..Len(handlers)
  /\ handlers[k].pc = "seedCommit"
  /\ sTeams' = sTeams \cup Range(handlers[k].newTeams)
  /\ sItems' = sItems \cup SeedItemDocs(handlers[k].newTeams)
  /\ ContinueWith(k, handlers[k].newTeams)
  /\ last' = [op |-> "seedCommit", read |-> handlers[k].read, outcome |-> "resolved",
              found |-> sTeams]
  /\ UNCHANGED <<sEmps, sEntries, nextId, aggVars, subVars, draftVars, dt, ae, sv, errors,
                 opsLeft, de>>
  /\ UNCHANGED <<shortWeek, due>>

\* The commit is rejected: one "write" error event, swallowed by the catch;
\* teamsData = newTeams all the same.
SeedCommitRejected(k) ==
  /\ k \in 1..Len(handlers)
  /\ handlers[k].pc = "seedCommit"
  /\ errors' = Append(errors, [operation |-> "write", path |-> TeamsPath])
  /\ ContinueWith(k, handlers[k].newTeams)
  /\ last' = [op |-> "seedCommit", read |-> handlers[k].read, outcome |-> "rejected",
              found |-> sTeams]
  /\ UNCHANGED <<storeVars, aggVars, subVars, draftVars, dt, ae, sv, opsLeft, de>>
  /\ UNCHANGED <<shortWeek, due>>

(***************************************************************************)
(* Failures of the team listener and of its backfill pass                  *)
(* (DataProvider.tsx 659, 672-687).                                        *)
(***************************************************************************)
\* The error callback of the team listener: one "list" event,
\* setLoading(false), and the listener delivers nothing any more.
TeamsSnapshotError ==
  /\ opsLeft > 0
  /\ teamsSub.live
  /\ teamsSub' = [teamsSub EXCEPT !.live = FALSE]
  /\ errors' = Append(errors, [operation |-> "list", path |-> TeamsPath])
  /\ queued' = [loading |-> FALSE] @@ queued
  /\ opsLeft' = opsLeft - 1
  /\ last' = [op |-> "teamsSnapshotError"]
  /\ UNCHANGED <<storeVars, aggVars, allItems, allEmployees, allProduction,
                 teamsProcessed, totalTeams, itemSubs, empSubs, prodSubs, draftVars,
                 procVars>>
  /\ UNCHANGED <<shortWeek, due>>

\* await getDocsFromServer(productionItems) is rejected: nothing catches
\* it, so the handler ends there; no event, no catalog, loading as it was.
BackfillReadRejected(k) ==
  /\ k \in 1..Len(handlers)
  /\ handlers[k].pc = "backfill"
  /\ handlers' = RemoveAt(handlers, k)
  /\ last' = [op |-> "backfillReadRejected"]
  /\ UNCHANGED <<storeVars, aggVars, subVars, draftVars, dt, de, ae, sv, errors, opsLeft>>
  /\ UNCHANGED <<shortWeek, queued, due>>

\* await itemCreationBatch.commit() is rejected: the catch emits one
\* "write" event and the handler ends; no catalog is written.
BackfillCommitRejected(k) ==
  /\ k \in 1..Len(handlers)
  /\ handlers[k].pc = "commit"
  /\ errors' = Append(errors, [operation |-> "write", path |-> <<"productionItems">>])
  /\ handlers' = RemoveAt(handlers, k)
  /\ last' = [op |-> "backfillCommitRejected"]
  /\ UNCHANGED <<storeVars, aggVars, subVars, draftVars, dt, de, ae, sv, opsLeft>>
  /\ UNCHANGED <<shortWeek, queued, due>>

(***************************************************************************)
(* deleteTeam (DataProvider.tsx 791-827).                                  *)
(***************************************************************************)
TeamPath(t) == <<"teams", t>>

\* deleteTeam(t) is called and runs to its first await,
\* getDocs(productionItems).  Nothing keeps a second call from starting
\* while an earlier one is suspended: dt holds every call in flight.
DeleteTeamStart(t) ==
  /\ opsLeft > 0
  /\ LET call == [pc |-> "readItems", team |-> t, items |-> {}, emps |-> {},
                  entries |-> {}, queue |-> <<>>]
     IN /\ dt' = Append(dt, call)
        /\ last' = [op |-> "deleteTeam", step |-> "call", team |-> t, call |-> call]
  /\ opsLeft' = opsLeft - 1
  /\ UNCHANGED <<storeVars, aggVars, subVars, draftVars, ae, sv, handlers, errors, de>>
  /\ UNCHANGED <<shortWeek, queued, due>>

\* A deleteTeam that does not batch: itemsSnap arrives and every item is
\* deleted on the spot, itemsSnap.forEach(doc => deleteDoc(doc.ref)).
DeleteTeamReadItemsEager(k) ==
  /\ k \in 1..Len(dt)
  /\ dt[k].pc = "readItems"
  /\ dt' = [dt EXCEPT ![k] = [dt[k] EXCEPT !.pc = "readEmps"]]
  /\ sItems' = sItems \ ItemDocs(dt[k].team)
  /\ last' = [op |-> "deleteTeam", step |-> "readItems", team |-> dt[k].team,
              call |-> dt[k]]
  /\ UNCHANGED <<sTeams, sEmps, sEntries, nextId, aggVars, subVars, draftVars, ae, sv,
                 handlers, errors, opsLeft, de>>
  /\ UNCHANGED <<shortWeek, queued, due>>

\* itemsSnap arrives: itemsSnap.forEach(doc => batch.delete(doc.ref)); then
\* getDocs(employees) is issued.
DeleteTeamReadItems(k) ==
  /\ k \in 1..Len(dt)
  /\ dt[k].pc = "readItems"
  /\ dt' = [dt EXCEPT ![k] = [dt[k] EXCEPT !.pc = "readEmps",
                                           !.items = {d.id : d \in ItemDocs(dt[k].team)}]]
  /\ last' = [op |-> "deleteTeam", step |-> "readItems", team |-> dt[k].team,
              call |-> dt[k]]
  /\ UNCHANGED <<storeVars, aggVars, subVars, draftVars, ae, sv, handlers, errors, opsLeft, de>>
  /\ UNCHANGED <<shortWeek, queued, due>>

\* employeesSnap arrives: the loop over its documents starts with the read
\* of the first employee's dailyProduction; with no employee the team
\* document joins the batch and the commit is issued.
DeleteTeamReadEmployees(k) ==
  /\ k \in 1..Len(dt)
  /\ dt[k].pc = "readEmps"
  /\ LET q == MapSeq(SortById(EmpDocs(dt[k].team)), LAMBDA d : d.id)
     IN dt' = [dt EXCEPT ![k] = [dt[k] EXCEPT !.pc = IF q = <<>> THEN "commit" ELSE "readProd",
                                              !.queue = q]]
  /\ last' = [op |-> "deleteTeam", step |-> "readEmps", team |-> dt[k].team,
              call |-> dt[k]]
  /\ UNCHANGED <<storeVars, aggVars, subVars, draftVars, ae, sv, handlers, errors, opsLeft, de>>
  /\ UNCHANGED <<shortWeek, queued, due>>

\* dailyProdSnap of the next employee arrives: its entries and the employee
\* document join the batch.
DeleteTeamReadProduction(k) ==
  /\ k \in 1..Len(dt)
  /\ dt[k].pc = "readProd"
  /\ LET e == Head(dt[k].queue)
         rest == Tail(dt[k].queue)
     IN dt' = [dt EXCEPT ![k] =
                 [dt[k] EXCEPT !.pc = IF rest = <<>> THEN "commit" ELSE "readProd",
                               !.queue = rest,
                               !.entries = @ \cup {d.id : d \in EntryDocs(dt[k].team, e)},
                               !.emps = @ \cup {e}]]
  /\ last' = [op |-> "deleteTeam", step |-> "readProd", team |-> dt[k].team,
              call |-> dt[k]]
  /\ UNCHANGED <<storeVars, aggVars, subVars, draftVars, ae, sv, handlers, errors, opsLeft, de>>
  /\ UNCHANGED <<shortWeek, queued, due>>

\* await batch.commit() resolves: every delete of the batch is applied at once.
DeleteTeamCommit(k) ==
  /\ k \in 1..Len(dt)
  /\ dt[k].pc = "commit"
  /\ sItems' = {d \in sItems : ~(d.path = dt[k].team /\ d.id \in dt[k].items)}
  /\ sEmps' = {d \in sEmps : ~(d.path = dt[k].team /\ d.id \in dt[k].emps)}
  /\ sEntries' = {d \in sEntries : ~(d.path = dt[k].team /\ d.id \in dt[k].entries)}
  /\ sTeams' = {d \in sTeams : d.id # dt[k].team}
  /\ dt' = RemoveAt(dt, k)
  /\ last' = [op |-> "deleteTeam", step |-> "commit", team |-> dt[k].team,
              outcome |-> "resolved", call |-> dt[k]]
  /\ UNCHANGED <<nextId, aggVars, subVars, draftVars, ae, sv, handlers, errors, opsLeft, de>>
  /\ UNCHANGED <<shortWeek, queued, due>>

\* One of the reads or the commit is rejected: the catch block emits one
\* error event and re-throws.
DeleteTeamRejected(k) ==
  /\ k \in 1..Len(dt)
  /\ errors' = Append(errors, [operation |-> "delete", path |-> TeamPath(dt[k].team)])
  /\ dt' = RemoveAt(dt, k)
  /\ last' = [op |-> "deleteTeam", step |-> dt[k].pc, team |-> dt[k].team,
              outcome |-> "rejected", call |-> dt[k], failed |-> TRUE]
  /\ UNCHANGED <<storeVars, aggVars, subVars, draftVars, ae, sv, handlers, opsLeft, de>>
  /\ UNCHANGED <<shortWeek, queued, due>>

(***************************************************************************)
(* addEmployee and createInitialProductionEntries                          *)
(* (DataProvider.tsx 829-849, 566-609).                                    *)
(***************************************************************************)

\* One entry of quantity 0 per team item and day of the week, in loop order.
InitialEntryDocs(t, e, itemIds, base) ==
  {[id |-> <<base + (k - 1) * (LastDayOffset + 1) + d>>, path |-> t, emp |-> e,
    employeeId |-> e, productionItemId |-> itemIds[k], date |-> d, quantity |-> 0] :
     k \in 1..Len(itemIds), d \in WeekDays}

\* items.filter(i => i.teamId === employee.teamId), then addDoc is issued.
\* ae holds every call in flight.
AddEmployeeStart(t) ==
  /\ opsLeft > 0
  /\ LET call == [pc |-> "addDoc", team |-> t, emp |-> 0,
                  teamItems |-> MapSeq(SelectSeq(items, LAMBDA i : i.teamId = t),
                                       LAMBDA i : i.id)]
     IN /\ ae' = Append(ae, call)
        /\ last' = [op |-> "addEmployee", step |-> "call", team |-> t, call |-> call]
  /\ opsLeft' = opsLeft - 1
  /\ UNCHANGED <<storeVars, aggVars, subVars, draftVars, dt, sv, handlers, errors, de>>
  /\ UNCHANGED <<shortWeek, queued, due>>

\* await addDoc(ref, employee) resolves; createInitialProductionEntries
\* returns at once for a team without items and issues its batch otherwise.
AddEmployeeDoc(k) ==
  /\ k \in 1..Len(ae)
  /\ ae[k].pc = "addDoc"
  /\ sEmps' = sEmps \cup {[id |-> nextId, path |-> ae[k].team, teamId |-> ae[k].team]}
  /\ nextId' = nextId + 1
  /\ ae' = IF ae[k].teamItems = <<>> THEN RemoveAt(ae, k)
           ELSE [ae EXCEPT ![k] = [ae[k] EXCEPT !.pc = "entries", !.emp = nextId]]
  /\ last' = [op |-> "addEmployee", step |-> "addDoc", team |-> ae[k].team,
              employee |-> nextId,
              outcome |-> IF ae[k].teamItems = <<>> THEN "resolved" ELSE "pending",
              call |-> ae[k]]
  /\ UNCHANGED <<sTeams, sItems, sEntries, aggVars, subVars, draftVars, dt, sv, handlers,
                 errors, opsLeft, de>>
  /\ UNCHANGED <<shortWeek, queued, due>>

\* await batch.commit() of createInitialProductionEntries resolves.
AddEmployeeEntries(k) ==
  /\ k \in 1..Len(ae)
  /\ ae[k].pc = "entries"
  /\ LET docs == InitialEntryDocs(ae[k].team, ae[k].emp, ae[k].teamItems, nextId)
     IN /\ sEntries' = sEntries \cup docs
        /\ nextId' = nextId + Cardinality(docs)
  /\ ae' = RemoveAt(ae, k)
  /\ last' = [op |-> "addEmployee", step |-> "entries", team |-> ae[k].team,
              employee |-> ae[k].emp, outcome |-> "resolved", call |-> ae[k]]
  /\ UNCHANGED <<sTeams, sItems, sEmps, aggVars, subVars, draftVars, dt, sv, handlers,
                 errors, opsLeft, de>>
  /\ UNCHANGED <<shortWeek, queued, due>>

\* addDoc or the entries batch is rejected: one error event; the outer catch
\* of addEmployee swallows the error.
AddEmployeeRejected(k) ==
  /\ k \in 1..Len(ae)
  /\ errors' = Append(errors,
       IF ae[k].pc = "addDoc"
         THEN [operation |-> "create", path |-> EmployeesPath(ae[k].team)]
         ELSE [operation |-> "write", path |-> ProductionPath(ae[k].team, ae[k].emp)])
  /\ ae' = RemoveAt(ae, k)
  /\ last' = [op |-> "addEmployee", step |-> ae[k].pc, team |-> ae[k].team,
              outcome |-> "resolved", call |-> ae[k], failed |-> TRUE]
  /\ UNCHANGED <<storeVars, aggVars, subVars, draftVars, dt, sv, handlers, opsLeft, de>>
  /\ UNCHANGED <<shortWeek, queued, due>>

(***************************************************************************)
(* deleteEmployee (DataProvider.tsx 851-881).  Three awaits: the read of   *)
(* the employee's dailyProduction, the commit of the batch that deletes    *)
(* what was read, and deleteDoc of the employee document.  The outer catch *)
(* swallows every error, so the call always resolves.                      *)
(***************************************************************************)
\* doc(firestore, `teams/${teamId}/employees`, id)
EmployeePath(t, e) == <<"teams", t, "employees", e>>

\* deleteEmployee(e, t) is called: getDocs(dailyProduction) is issued.  de
\* holds every call in flight.
DeleteEmployeeStart(e, t) ==
  /\ opsLeft > 0
  /\ LET call == [pc |-> "read", team |-> t, emp |-> e, entries |-> {}]
     IN /\ de' = Append(de, call)
        /\ last' = [op |-> "deleteEmployee", step |-> "call", team |-> t, employee |-> e,
                    call |-> call]
  /\ opsLeft' = opsLeft - 1
  /\ UNCHANGED <<storeVars, aggVars, subVars, draftVars, dt, ae, sv, handlers, errors>>
  /\ UNCHANGED <<shortWeek, queued, due>>

\* productionSnap arrives: productionSnap.forEach(doc => batch.delete(doc.ref)),
\* then batch.commit() is issued.
DeleteEmployeeRead(k) ==
  /\ k \in 1..Len(de)
  /\ de[k].pc = "read"
  /\ de' = [de EXCEPT ![k] =
              [de[k] EXCEPT !.pc = "commit",
                            !.entries = {d.id : d \in EntryDocs(de[k].team, de[k].emp)}]]
  /\ last' = [op |-> "deleteEmployee", step |-> "read", team |-> de[k].team,
              employee |-> de[k].emp, outcome |-> "pending", call |-> de[k]]
  /\ UNCHANGED <<storeVars, aggVars, subVars, draftVars, dt, ae, sv, handlers, errors,
                 opsLeft>>
  /\ UNCHANGED <<shortWeek, queued, due>>

\* The entry deletes are applied at once; then deleteDoc(ref) is issued.
DeleteEmployeeCommit(k) ==
  /\ k \in 1..Len(de)
  /\ de[k].pc = "commit"
  /\ sEntries' = {d \in sEntries :
                    ~(d.path = de[k].team /\ d.emp = de[k].emp /\ d.id \in de[k].entries)}
  /\ de' = [de EXCEPT ![k] = [de[k] EXCEPT !.pc = "deleteDoc"]]
  /\ last' = [op |-> "deleteEmployee", step |-> "commit", team |-> de[k].team,
              employee |-> de[k].emp, outcome |-> "pending", call |-> de[k]]
  /\ UNCHANGED <<sTeams, sItems, sEmps, nextId, aggVars, subVars, draftVars, dt, ae, sv,
                 handlers, errors, opsLeft>>
  /\ UNCHANGED <<shortWeek, queued, due>>

\* deleteDoc(ref) resolves: the employee document is gone.
DeleteEmployeeDoc(k) ==
  /\ k \in 1..Len(de)
  /\ de[k].pc = "deleteDoc"
  /\ sEmps' = {d \in sEmps : ~(d.path = de[k].team /\ d.id = de[k].emp)}
  /\ de' = RemoveAt(de, k)
  /\ last' = [op |-> "deleteEmployee", step |-> "deleteDoc", team |-> de[k].team,
              employee |-> de[k].emp, outcome |-> "resolved", call |-> de[k]]
  /\ UNCHANGED <<sTeams, sItems, sEntries, nextId, aggVars, subVars, draftVars, dt, ae, sv,
                 handlers, errors, opsLeft>>
  /\ UNCHANGED <<shortWeek, queued, due>>

\* One of the three awaits is rejected.  The read emits a "list" event and
\* deleteDoc a "delete" event before re-throwing to the outer catch; the
\* commit of the batch has no catch of its own and emits nothing.  The outer
\* catch swallows the error.
DeleteEmployeeRejected(k) ==
  /\ k \in 1..Len(de)
  /\ errors' = IF de[k].pc = "read"
                 THEN Append(errors, [operation |-> "list",
                                      path |-> ProductionPath(de[k].team, de[k].emp)])
               ELSE IF de[k].pc = "deleteDoc"
                 THEN Append(errors, [operation |-> "delete",
                                      path |-> EmployeePath(de[k].team, de[k].emp)])
               ELSE errors
  /\ de' = RemoveAt(de, k)
  /\ last' = [op |-> "deleteEmployee", step |-> de[k].pc, team |-> de[k].team,
              employee |-> de[k].emp, outcome |-> "resolved", failed |-> TRUE,
              call |-> de[k]]
  /\ UNCHANGED <<storeVars, aggVars, subVars, draftVars, dt, ae, sv, handlers, opsLeft>>
  /\ UNCHANGED <<shortWeek, queued, due>>

(***************************************************************************)
(* addTeam (DataProvider.tsx 771-789).  The call reads nothing of the      *)
(* provider's state before its only await, so the call and the outcome of  *)
(* addDoc are one step.                                                    *)
(***************************************************************************)
\* await addDoc(collection('teams'), team) resolves.
AddTeam(name) ==
  /\ opsLeft > 0
  /\ sTeams' = sTeams \cup {[id |-> nextId, name |-> name]}
  /\ nextId' = nextId + 1
  /\ opsLeft' = opsLeft - 1
  /\ last' = [op |-> "addTeam", team |-> nextId, name |-> name, outcome |-> "resolved"]
  /\ UNCHANGED <<sItems, sEmps, sEntries, aggVars, subVars, draftVars, procVars, errors>>
  /\ UNCHANGED <<shortWeek, queued, due>>

\* addDoc is rejected: one error event, and the error is re-thrown.
AddTeamRejected(name) ==
  /\ opsLeft > 0
  /\ errors' = Append(errors, [operation |-> "create", path |-> TeamsPath])
  /\ opsLeft' = opsLeft - 1
  /\ last' = [op |-> "addTeam", team |-> 0, name |-> name, outcome |-> "rejected"]
  /\ UNCHANGED <<storeVars, aggVars, subVars, draftVars, procVars>>
  /\ UNCHANGED <<shortWeek, queued, due>>

(***************************************************************************)
(* Draft Overlay edits (DataProvider.tsx 423-456).                         *)
(***************************************************************************)
\* A setter call on a discarded provider is dropped: nothing React holds
\* changes.
Dropped ==
  UNCHANGED <<aggVars, allItems, allEmployees, allProduction, teamsProcessed, totalTeams,
              itemSubs, empSubs, prodSubs, localRates, localProduction, hasChanges,
              queued, due>>

\* {...prev, [itemId]: rate}
WithRate(prev, i, rate) ==
  [k \in DOMAIN prev \cup {i} |-> IF k = i THEN rate ELSE prev[k]]

\* A rate handler that writes the item document at once, as an updateItem
\* call would, besides editing the overlay.
HandleRateChangeWriting(i, raw) ==
  /\ opsLeft > 0
  /\ IF Discarded
       THEN Dropped
       ELSE RenderEvent([localRates |-> WithRate(Latest(queued, "localRates", localRates),
                                                i, RateOf(raw)),
                         hasChanges |-> TRUE])
  /\ sItems' = {IF d.id = i THEN [d EXCEPT !.payRate = RateOf(raw)] ELSE d : d \in sItems}
  /\ savedClean' = FALSE
  /\ opsLeft' = opsLeft - 1
  /\ last' = [op |-> "setRate", item |-> i, raw |-> raw]
  /\ UNCHANGED <<sTeams, sEmps, sEntries, nextId, teamsSub, procVars, errors, shortWeek>>

\* setLocalRates(prev => ({...prev, [itemId]: parseFloat(newRate) || 0}));
\* setHasChanges(true)
HandleRateChange(i, raw) ==
  /\ opsLeft > 0
  /\ IF Discarded
       THEN Dropped
       ELSE RenderEvent([localRates |-> WithRate(Latest(queued, "localRates", localRates),
                                                i, RateOf(raw)),
                         hasChanges |-> TRUE])
  /\ savedClean' = FALSE
  /\ opsLeft' = opsLeft - 1
  /\ last' = [op |-> "setRate", item |-> i, raw |-> raw]
  /\ UNCHANGED <<storeVars, teamsSub, procVars, errors, shortWeek>>

\* Object.values(localProduction).find(p => same employee, item and date)
FindEntry(lp, e, i, d) ==
  LET ks == {k \in 1..Len(lp) : lp[k].employeeId = e /\ lp[k].productionItemId = i
                                  /\ lp[k].date = d}
  IN IF ks = {} THEN 0 ELSE CHOOSE k \in ks : \A j \in ks : k <= j

\* The cells a team's table offers: a row per employee of the team and a
\* column group per item of the team.
OfferedCell(e, i) ==
  \E emp \in Range(employees), it \in Range(items) :
    emp.id = e /\ it.id = i /\ it.teamId = emp.teamId

\* {...prev, [entry.id]: entry}: the entry takes the place of the one with
\* its id, or comes last.
WithEntry(prev, entry) ==
  IF \E j \in 1..Len(prev) : prev[j].id = entry.id
    THEN [j \in 1..Len(prev) |-> IF prev[j].id = entry.id THEN entry ELSE prev[j]]
    ELSE Append(prev, entry)

\* The cell (employee e, item i, weekday column d) gets the raw value: the
\* entry of the cell is looked up in the overlay the handler was rendered
\* with, and the setter's function is applied to the overlay last set.
HandleProductionChange(e, i, d, raw) ==
  /\ opsLeft > 0
  /\ IF Discarded
       THEN Dropped
       ELSE LET k == FindEntry(localProduction, e, i, d)
                entry == IF k # 0
                           THEN [localProduction[k] EXCEPT
                                   !.quantity = IF raw = <<>> THEN 0 ELSE QuantityOf(raw)]
                           ELSE [id |-> NewId(e, i, d), employeeId |-> e,
                                 productionItemId |-> i, date |-> d,
                                 quantity |-> QuantityOf(raw)]
            IN RenderEvent(
                 [localProduction |->
                    WithEntry(Latest(queued, "localProduction", localProduction), entry),
                  hasChanges |-> TRUE])
  /\ savedClean' = FALSE
  /\ opsLeft' = opsLeft - 1
  /\ last' = [op |-> "setProductionQuantity", employee |-> e, item |-> i, day |-> d,
              raw |-> raw, had |-> FindEntry(localProduction, e, i, d) # 0]
  /\ UNCHANGED <<storeVars, teamsSub, procVars, errors, shortWeek>>

\* new Set(employees.filter(e => e.teamId === teamId).map(e => e.id))
TeamEmployeeIds(emps, t) == {emps[k].id : k \in {j \in 1..Len(emps) : emps[j].teamId = t}}

\* A reset that zeroes every overlay entry, whatever the team.
ZeroedAll(lp, ids) == [k \in 1..Len(lp) |-> [lp[k] EXCEPT !.quantity = 0]]

\* The copy of the overlay with quantity 0 in every entry of those employees.
ZeroedFor(lp, ids) ==
  [k \in 1..Len(lp) |->
     IF lp[k].employeeId \in ids THEN [lp[k] EXCEPT !.quantity = 0] ELSE lp[k]]

\* resetProduction(teamId), DataProvider.tsx 458-474.
ResetProduction(t) ==
  /\ opsLeft > 0
  /\ IF Discarded
       THEN Dropped
       ELSE RenderEvent(
              [localProduction |->
                 ZeroedFor(localProduction, TeamEmployeeIds(employees, t)),
               hasChanges |-> TRUE])
  /\ savedClean' = FALSE
  /\ opsLeft' = opsLeft - 1
  /\ last' = [op |-> "resetProduction", team |-> t]
  /\ UNCHANGED <<storeVars, teamsSub, procVars, errors, shortWeek>>

(***************************************************************************)
(* Batch Commit Reconciler: saveAllChanges (DataProvider.tsx 476-518).     *)
(***************************************************************************)
FindById(s, id) ==
  LET ks == {k \in 1..Len(s) : s[k].id = id}
  IN IF ks = {} THEN 0 ELSE CHOOSE k \in ks : \A j \in ks : k <= j

\* Object.entries(localRates).forEach(...): one update per changed rate.
RateOps(rates, its) ==
  {[item |-> i, team |-> its[FindById(its, i)].teamId, payRate |-> rates[i]] :
     i \in {j \in DOMAIN rates : FindById(its, j) # 0
                                  /\ its[FindById(its, j)].payRate # rates[j]}}

\* The first revision of the loop body: every entry unknown to the Aggregate
\* Store is created, whatever its quantity.
EntryOpCreateAlways(entry, prod, emps) ==
  IF FindById(emps, entry.employeeId) = 0 THEN "skip"
  ELSE IF FindById(prod, entry.id) # 0
         THEN IF prod[FindById(prod, entry.id)].quantity # entry.quantity
                THEN "update" ELSE "skip"
         ELSE "create"

\* What the loop body does with one overlay entry: "update", "create" or "skip".
EntryOp(entry, prod, emps) ==
  IF FindById(emps, entry.employeeId) = 0 THEN "skip"
  ELSE IF FindById(prod, entry.id) # 0
         THEN IF prod[FindById(prod, entry.id)].quantity # entry.quantity
                THEN "update" ELSE "skip"
         ELSE IF entry.quantity > 0 THEN "create" ELSE "skip"

EntryTeam(entry, emps) == emps[FindById(emps, entry.employeeId)].teamId

\* Object.values(localProduction).forEach(...): the entry operations of the
\* batch, in overlay order.
EntryOps(lp, prod, emps) ==
  LET op(entry) == [kind |-> EntryOp(entry, prod, emps), entry |-> entry,
                    team |-> IF FindById(emps, entry.employeeId) = 0 THEN 0
                             ELSE EntryTeam(entry, emps)]
  IN SelectSeq(MapSeq(lp, op), LAMBDA o : o.kind # "skip")

Creates(ops) == SelectSeq(ops, LAMBDA o : o.kind = "create")
Updates(ops) == SelectSeq(ops, LAMBDA o : o.kind = "update")

\* The batch is built from the state of the render the call was made in,
\* and batch.commit() is issued.
SaveStart ==
  /\ opsLeft > 0
  /\ sv' = Append(sv, [pc |-> "commit", rates |-> RateOps(localRates, items),
                       entries |-> EntryOps(localProduction, production, employees)])
  /\ opsLeft' = opsLeft - 1
  /\ last' = [op |-> "saveAllChanges", step |-> "call",
              rates |-> RateOps(localRates, items),
              entries |-> EntryOps(localProduction, production, employees),
              afterSave |-> savedClean]
  /\ UNCHANGED <<storeVars, aggVars, subVars, draftVars, dt, ae, handlers, errors, de>>
  /\ UNCHANGED <<shortWeek, queued, due>>

\* batch.update needs its document to exist; batch.set does not.
BatchApplies(b) ==
  /\ \A r \in b.rates : \E d \in sItems : d.path = r.team /\ d.id = r.item
  /\ \A k \in 1..Len(b.entries) :
       b.entries[k].kind = "update" =>
         \E d \in sEntries : /\ d.path = b.entries[k].team
                             /\ d.emp = b.entries[k].entry.employeeId
                             /\ d.id = b.entries[k].entry.id

\* A commit whose created documents keep the overlay entry's id field, which
\* the listener's {id: d.id, ...d.data()} then reports as the entry's id.
SaveCommitKeepingId(c) ==
  /\ c \in 1..Len(sv)
  /\ sv[c].pc = "commit"
  /\ BatchApplies(sv[c])
  /\ LET ups == Updates(sv[c].entries)
         news == Creates(sv[c].entries)
         rateOf(d) == IF \E r \in sv[c].rates : r.team = d.path /\ r.item = d.id
                        THEN (CHOOSE r \in sv[c].rates : r.team = d.path /\ r.item = d.id).payRate
                        ELSE d.payRate
         hit(d) == {k \in 1..Len(ups) : /\ ups[k].team = d.path
                                         /\ ups[k].entry.employeeId = d.emp
                                         /\ ups[k].entry.id = d.id}
         qtyOf(d) == IF hit(d) = {} THEN d.quantity
                     ELSE ups[CHOOSE k \in hit(d) : TRUE].entry.quantity
     IN /\ sItems' = {[d EXCEPT !.payRate = rateOf(d)] : d \in sItems}
        /\ sEntries' = {[d EXCEPT !.quantity = qtyOf(d)] : d \in sEntries}
             \cup {[id |-> news[k].entry.id, path |-> news[k].team,
                    emp |-> news[k].entry.employeeId,
                    employeeId |-> news[k].entry.employeeId,
                    productionItemId |-> news[k].entry.productionItemId,
                    date |-> news[k].entry.date,
                    quantity |-> news[k].entry.quantity] : k \in 1..Len(news)}
        /\ nextId' = nextId + Len(news)
  /\ queued' = IF Discarded THEN queued ELSE [hasChanges |-> FALSE] @@ queued
  /\ savedClean' = TRUE
  /\ sv' = RemoveAt(sv, c)
  /\ last' = [op |-> "saveAllChanges", step |-> "commit", outcome |-> "resolved",
              rates |-> sv[c].rates, entries |-> sv[c].entries]
  /\ UNCHANGED <<sTeams, sEmps, aggVars, subVars, localRates, localProduction, hasChanges,
                 dt, ae, handlers, errors, opsLeft, de>>
  /\ UNCHANGED <<shortWeek, due>>

\* await batch.commit() resolves: every operation is applied at once, then
\* setHasChanges(false).
SaveCommit(c) ==
  /\ c \in 1..Len(sv)
  /\ sv[c].pc = "commit"
  /\ BatchApplies(sv[c])
  /\ LET ups == Updates(sv[c].entries)
         news == Creates(sv[c].entries)
         rateOf(d) == IF \E r \in sv[c].rates : r.team = d.path /\ r.item = d.id
                        THEN (CHOOSE r \in sv[c].rates : r.team = d.path /\ r.item = d.id).payRate
                        ELSE d.payRate
         hit(d) == {k \in 1..Len(ups) : /\ ups[k].team = d.path
                                         /\ ups[k].entry.employeeId = d.emp
                                         /\ ups[k].entry.id = d.id}
         qtyOf(d) == IF hit(d) = {} THEN d.quantity
                     ELSE ups[CHOOSE k \in hit(d) : TRUE].entry.quantity
     IN /\ sItems' = {[d EXCEPT !.payRate = rateOf(d)] : d \in sItems}
        /\ sEntries' = {[d EXCEPT !.quantity = qtyOf(d)] : d \in sEntries}
             \cup {[id |-> <<nextId + k - 1>>, path |-> news[k].team,
                    emp |-> news[k].entry.employeeId,
                    employeeId |-> news[k].entry.employeeId,
                    productionItemId |-> news[k].entry.productionItemId,
                    date |-> news[k].entry.date,
                    quantity |-> news[k].entry.quantity] : k \in 1..Len(news)}
        /\ nextId' = nextId + Len(news)
  /\ queued' = IF Discarded THEN queued ELSE [hasChanges |-> FALSE] @@ queued
  /\ savedClean' = TRUE
  /\ sv' = RemoveAt(sv, c)
  /\ last' = [op |-> "saveAllChanges", step |-> "commit", outcome |-> "resolved",
              rates |-> sv[c].rates, entries |-> sv[c].entries]
  /\ UNCHANGED <<sTeams, sEmps, aggVars, subVars, localRates, localProduction, hasChanges,
                 dt, ae, handlers, errors, opsLeft, de>>
  /\ UNCHANGED <<shortWeek, due>>

\* A catch branch that clears the dirty flag as the success branch does.
SaveRejectedClearing(c) ==
  /\ c \in 1..Len(sv)
  /\ sv[c].pc = "commit"
  /\ errors' = Append(errors, [operation |-> "write", path |-> <<"batch update">>])
  /\ sv' = RemoveAt(sv, c)
  /\ queued' = IF Discarded THEN queued ELSE [hasChanges |-> FALSE] @@ queued
  /\ last' = [op |-> "saveAllChanges", step |-> "commit", outcome |-> "rejected",
              rates |-> sv[c].rates, entries |-> sv[c].entries]
  /\ UNCHANGED <<storeVars, aggVars, subVars, draftVars, dt, ae, handlers, opsLeft, de>>
  /\ UNCHANGED <<shortWeek, due>>

\* The commit is rejected: one error event, the error is re-thrown, and the
\* dirty flag is left as it is.
SaveRejected(c) ==
  /\ c \in 1..Len(sv)
  /\ sv[c].pc = "commit"
  /\ errors' = Append(errors, [operation |-> "write", path |-> <<"batch update">>])
  /\ sv' = RemoveAt(sv, c)
  /\ last' = [op |-> "saveAllChanges", step |-> "commit", outcome |-> "rejected",
              rates |-> sv[c].rates, entries |-> sv[c].entries]
  /\ UNCHANGED <<storeVars, aggVars, subVars, draftVars, dt, ae, handlers, opsLeft, de>>
  /\ UNCHANGED <<shortWeek, queued, due>>

(***************************************************************************)
(* Initial states: a provider whose subscriptions have all delivered the   *)
(* store as it is, with nothing in flight.                                 *)
(***************************************************************************)
RECURSIVE ConcatItems(_)
ConcatItems(ts) == IF ts = <<>> THEN <<>> ELSE ItemSnapshot(Head(ts).id) \o ConcatItems(Tail(ts))

RECURSIVE ConcatEmployees(_)
ConcatEmployees(ts) ==
  IF ts = <<>> THEN <<>> ELSE EmpSnapshot(Head(ts).id) \o ConcatEmployees(Tail(ts))

RECURSIVE ConcatProduction(_)
ConcatProduction(es) ==
  IF es = <<>> THEN <<>>
  ELSE EntrySnapshot(Head(es).teamId, Head(es).id) \o ConcatProduction(Tail(es))

Converged ==
  /\ teams = TeamSnapshot
  /\ allItems = ConcatItems(teams)
  /\ items = DedupById(allItems)
  /\ allEmployees = ConcatEmployees(teams)
  /\ employees = DedupById(allEmployees)
  /\ allProduction = ConcatProduction(employees)
  /\ production = DedupById(allProduction)
  /\ loading = FALSE
  /\ teamsProcessed = Len(teams)
  /\ totalTeams = Len(teams)
  /\ teamsSub = [live |-> TRUE, got |-> TRUE, docs |-> TeamSnapshot]
  /\ itemSubs = [t \in Ids(teams) |-> Got(ItemSnapshot(t))]
  /\ empSubs = [t \in Ids(teams) |-> Got(EmpSnapshot(t))]
  /\ prodSubs = [p \in {<<d.path, d.id>> : d \in sEmps} |-> Got(EntrySnapshot(p[1], p[2]))]
  /\ handlers = <<>>
  /\ localRates = InitialRates(items)
  /\ localProduction = InitialProduction(items, production, employees)
  /\ hasChanges = FALSE
  /\ savedClean = FALSE
  /\ queued = NoUpdates
  /\ due = {}
  /\ dt = <<>>
  /\ de = <<>>
  /\ ae = <<>>
  /\ sv = <<>>
  /\ errors = <<>>

\* A converged provider before the first of the budget user operations, in
\* a week without a clock change.
Settled(budget) ==
  /\ shortWeek = FALSE
  /\ Converged
  /\ last = [op |-> "init"]
  /\ opsLeft = budget

\* The same in any week.
SettledAnyWeek(budget) ==
  /\ shortWeek \in BOOLEAN
  /\ Converged
  /\ last = [op |-> "init"]
  /\ opsLeft = budget

Team1 == [id |-> 1, name |-> "Corazones"]
Team2 == [id |-> 2, name |-> "Hojas"]
Item(id, t, name, rate) ==
  [id |-> id, path |-> t, teamId |-> t, name |-> name, payRate |-> rate * Scale]
Emp(id, t) == [id |-> id, path |-> t, teamId |-> t]
Entry(id, t, e, i, d, q) ==
  [id |-> <<id>>, path |-> t, emp |-> e, employeeId |-> e, productionItemId |-> i,
   date |-> d, quantity |-> q]

\* Employee 5 of team 1; employees 6 and 7 of team 2, each with history.
TeamEmps == {Emp(5, 1), Emp(6, 2), Emp(7, 2)}
TeamEntries == {Entry(8, 1, 5, 3, 0, 3), Entry(9, 2, 6, 4, 0, 20), Entry(10, 2, 7, 4, 1, 5)}
InitialIds ==
  {Team1.id, Team2.id, 3, 4} \cup {e.id : e \in TeamEmps} \cup {d.id[1] : d \in TeamEntries}
FirstFreeId == 1 + CHOOSE m \in InitialIds : \A n \in InitialIds : n <= m

\* The team scenario: both teams with their employees and history; team 1
\* is deleted (also twice, the calls overlapping) and every notification
\* that follows is delivered, rendered and followed by its effects in any
\* order.
InitTeam ==
  /\ sTeams = {Team1, Team2}
  /\ sItems = {Item(3, 1, "Chico", 10), Item(4, 2, "Blanca", 13)}
  /\ sEmps = TeamEmps
  /\ sEntries = TeamEntries
  /\ nextId = FirstFreeId
  /\ Settled(TeamOps)

NextTeam ==
  \/ \E t \in Ids(teams) \cap {Team1.id} : DeleteTeamStart(t)
  \/ \E k \in 1..Len(dt) : DeleteTeamReadItems(k)
  \/ \E k \in 1..Len(dt) : DeleteTeamReadEmployees(k)
  \/ \E k \in 1..Len(dt) : DeleteTeamReadProduction(k)
  \/ \E k \in 1..Len(dt) : DeleteTeamCommit(k)
  \/ \E k \in 1..Len(dt) : DeleteTeamRejected(k)
  \/ TeamsSnapshot
  \/ \E k \in 1..Len(handlers) : BackfillRead(k)
  \/ \E t \in DOMAIN itemSubs : ItemsSnapshot(t)
  \/ \E t \in DOMAIN empSubs : EmployeesSnapshot(t)
  \/ \E p \in DOMAIN prodSubs : ProductionSnapshot(p[1], p[2])
  \/ Render
  \/ RunEffects

SpecTeam == InitTeam /\ [][NextTeam]_vars

(***************************************************************************)
(* The delete scenario: two teams, each with an item and an employee with  *)
(* history; team 1 is deleted (also twice, the calls overlapping) and      *)
(* employees are added to it, and every notification that follows is       *)
(* delivered in any order.                                                 *)
(***************************************************************************)
InitDelete ==
  /\ sTeams = {Team1, Team2}
  /\ sItems = {Item(3, 1, "Chico", 10), Item(4, 2, "Blanca", 13)}
  /\ sEmps = {Emp(5, 1), Emp(6, 2)}
  /\ sEntries = {d \in TeamEntries : \E e \in sEmps : e.id = d.emp}
  /\ nextId = FirstFreeId
  /\ Settled(DeleteOps)

NextDelete ==
  \/ \E t \in Ids(teams) \cap {Team1.id} : DeleteTeamStart(t)
  \/ \E k \in 1..Len(dt) : DeleteTeamReadItems(k)
  \/ \E k \in 1..Len(dt) : DeleteTeamReadEmployees(k)
  \/ \E k \in 1..Len(dt) : DeleteTeamReadProduction(k)
  \/ \E k \in 1..Len(dt) : DeleteTeamCommit(k)
  \/ \E k \in 1..Len(dt) : DeleteTeamRejected(k)
  \/ \E t \in Ids(teams) \cap {Team1.id} : AddEmployeeStart(t)
  \/ \E k \in 1..Len(ae) : AddEmployeeDoc(k)
  \/ \E k \in 1..Len(ae) : AddEmployeeEntries(k)
  \/ TeamsSnapshot
  \/ \E k \in 1..Len(handlers) : BackfillRead(k)
  \/ \E t \in DOMAIN itemSubs : ItemsSnapshot(t)
  \/ \E t \in DOMAIN empSubs : EmployeesSnapshot(t)
  \/ \E p \in DOMAIN prodSubs : ProductionSnapshot(p[1], p[2])
  \/ Render
  \/ RunEffects

SpecDelete == InitDelete /\ [][NextDelete]_vars

(***************************************************************************)
(* Overlapping records: the listeners copy a document's fields as they are *)
(* ({id: d.id, ...d.data()}) and merge by the teamId field, and the store  *)
(* does not tie that field to the collection the document is in.  Another  *)
(* client writing an employee document under team t whose teamId field     *)
(* names team f makes the closure array of employees keep a stale copy of  *)
(* it at the next snapshot of t.                                           *)
(***************************************************************************)
ForeignEmployeeWrite(t, f) ==
  /\ opsLeft > 0
  /\ sEmps' = sEmps \cup {[id |-> nextId, path |-> t, teamId |-> f]}
  /\ nextId' = nextId + 1
  /\ opsLeft' = opsLeft - 1
  /\ last' = [op |-> "foreignEmployeeWrite", team |-> t, field |-> f]
  /\ UNCHANGED <<sTeams, sItems, sEntries, aggVars, subVars, draftVars, procVars, errors>>
  /\ UNCHANGED <<shortWeek, queued, due>>

InitMerge ==
  /\ sTeams = {Team1, Team2}
  /\ sItems = {Item(3, 1, "Chico", 10), Item(4, 2, "Blanca", 13)}
  /\ sEmps = {Emp(6, 2), Emp(7, 2)}
  /\ sEntries = {d \in TeamEntries : \E e \in sEmps : e.id = d.emp}
  /\ nextId = FirstFreeId
  /\ Settled(MergeOps)

NextMerge ==
  \/ \E t \in {d.id : d \in sTeams}, f \in {Team1.id, Team2.id} : ForeignEmployeeWrite(t, f)
  \/ \E t \in Ids(teams) \cap {Team2.id} : DeleteTeamStart(t)
  \/ \E k \in 1..Len(dt) : DeleteTeamReadItems(k)
  \/ \E k \in 1..Len(dt) : DeleteTeamReadEmployees(k)
  \/ \E k \in 1..Len(dt) : DeleteTeamReadProduction(k)
  \/ \E k \in 1..Len(dt) : DeleteTeamCommit(k)
  \/ TeamsSnapshot
  \/ \E k \in 1..Len(handlers) : BackfillRead(k)
  \/ \E t \in DOMAIN itemSubs : ItemsSnapshot(t)
  \/ \E t \in DOMAIN empSubs : EmployeesSnapshot(t)
  \/ \E p \in DOMAIN prodSubs : ProductionSnapshot(p[1], p[2])
  \/ Render
  \/ RunEffects

SpecMerge == InitMerge /\ [][NextMerge]_vars

(***************************************************************************)
(* Properties of deleteTeam and of the merge, under SpecTeam.              *)
(***************************************************************************)
DocsUnder(t) ==
  <<{d \in sTeams : d.id = t}, ItemDocs(t), EmpDocs(t), {d \in sEntries : d.path = t}>>

NoDocs == <<{}, {}, {}, {}>>

\* C1 (as claimed): in the state deleteTeam(T) completes successfully in, the
\* store holds no Team document T and no item, employee or entry under T,
\* whatever other writes interleaved with its reads and its commit.
CascadeComplete ==
  (last.op = "deleteTeam" /\ last.step = "commit" /\ last.outcome = "resolved")
    => DocsUnder(last.team) = NoDocs

\* C2: every step of deleteTeam but its successful commit leaves the store as
\* it is; the commit is issued only after every sub-collection was read and
\* applies exactly the deletes of the batch and of the Team document in one
\* step; a rejected read or commit deletes nothing, emits exactly one error
\* event and hands the error to the caller.
DeleteTeamAllOrNothing ==
  [][dt' # dt =>
       IF Len(dt') < Len(dt)
         THEN IF last'.outcome = "rejected"
                THEN /\ storeVars' = storeVars
                     /\ errors' = Append(errors, [operation |-> "delete",
                                                  path |-> TeamPath(last'.call.team)])
                ELSE /\ last'.call.pc = "commit" /\ last'.call.queue = <<>>
                     /\ sItems' = {d \in sItems : ~(d.path = last'.call.team
                                                     /\ d.id \in last'.call.items)}
                     /\ sEmps' = {d \in sEmps : ~(d.path = last'.call.team
                                                   /\ d.id \in last'.call.emps)}
                     /\ sEntries' = {d \in sEntries : ~(d.path = last'.call.team
                                                         /\ d.id \in last'.call.entries)}
                     /\ sTeams' = {d \in sTeams : d.id # last'.call.team}
                     /\ errors' = errors
         ELSE storeVars' = storeVars /\ errors' = errors]_vars

\* A commit with documents in its batch was rejected, and they are all there.
DeleteTeamRejectedAtCommit ==
  /\ last.op = "deleteTeam" /\ last.step = "commit" /\ last.outcome = "rejected"
  /\ EmpDocs(last.team) # {}
  /\ ItemDocs(last.team) # {}
  /\ Len(errors) = 1

\* What the store and the Aggregate Store hold of the employees and the
\* entries of team b.
TeamView(b) ==
  <<EmpDocs(b), {d \in sEntries : d.path = b},
    SelectSeq(employees, LAMBDA e : e.teamId = b),
    SelectSeq(production, LAMBDA p : \E e \in EmpDocs(b) : e.id = p.employeeId)>>

\* The step ran the child-subscription effect: its cleanup and its body.
ChildEffectRan == last'.op \in {"render", "effects"} /\ "child" \in last'.ran

\* C3 (as claimed): while no document is created, every step (of a
\* deleteTeam of another team, of the team notification after it, of the
\* renders and effects after that and of the snapshots that follow) leaves
\* the employees and entries of a team b that stays in the store unchanged
\* in the store and in the Aggregate Store, and the run of the
\* child-subscription effect for the new team list closes none of b's
\* listeners.
OtherTeamUntouched ==
  [][nextId' = FirstFreeId =>
       \A b \in {d.id : d \in sTeams'} :
         /\ TeamView(b)' = TeamView(b)
         /\ ChildEffectRan =>
              /\ b \notin last'.closedItemSubs
              /\ b \notin last'.closedEmpSubs
              /\ \A p \in last'.closedProdSubs : p[1] # b]_vars

\* C5 (as claimed): a snapshot of one team's items or employees leaves the
\* items or employees of every other team of the store as they were in the
\* array the Aggregate Store is given (the one passed to setItems or
\* setEmployees last), and a snapshot of one employee's entries leaves the
\* entries of every other employee of the store as they were in the array
\* passed to setProduction.
ScopedMerge ==
  [][/\ (last'.op = "itemsSnapshot" /\ itemSubs' # itemSubs) =>
          \A b \in {d.id : d \in sTeams} \ {last'.team} :
            SelectSeq(PublishedItems', LAMBDA i : i.teamId = b)
              = SelectSeq(PublishedItems, LAMBDA i : i.teamId = b)
     /\ (last'.op = "employeesSnapshot" /\ empSubs' # empSubs) =>
          \A b \in {d.id : d \in sTeams} \ {last'.team} :
            SelectSeq(PublishedEmployees', LAMBDA e : e.teamId = b)
              = SelectSeq(PublishedEmployees, LAMBDA e : e.teamId = b)
     /\ (last'.op = "productionSnapshot" /\ prodSubs' # prodSubs) =>
          \A x \in {d.id : d \in sEmps} \ {last'.employee} :
            SelectSeq(PublishedProduction', LAMBDA p : p.employeeId = x)
              = SelectSeq(PublishedProduction, LAMBDA p : p.employeeId = x)]_vars

\* C4: in every reachable state the Aggregate Store's items, employees and
\* production, and the arrays queued for them, each hold no two records with
\* the same id, whatever snapshots were delivered and whatever the closure
\* arrays they were built from hold.
DedupInvariant ==
  /\ NoDupIds(items) /\ NoDupIds(employees) /\ NoDupIds(production)
  /\ NoDupIds(PublishedItems) /\ NoDupIds(PublishedEmployees)
  /\ NoDupIds(PublishedProduction)

\* An employees snapshot was merged into a closure array that holds one id
\* twice, and the employees it published, now rendered, hold it once.
DedupCollapsed ==
  /\ last.op = "render"
  /\ "employees" \notin DOMAIN queued
  /\ ~NoDupIds(allEmployees)
  /\ Ids(employees) = Ids(allEmployees)
  /\ NoDupIds(employees)

(***************************************************************************)
(* The draft scenario: one team, one item, one employee, edits of the rate *)
(* and of two weekday cells, saves, and the snapshots that follow them.    *)
(***************************************************************************)
\* What the number inputs hand over: an emptied field, "2" and "-1".
DraftRaws == {<<>>, <<"2">>, <<"-", "1">>}

InitDraft ==
  /\ sTeams = {Team2}
  /\ sItems = {Item(4, 2, "Blanca", 13)}
  /\ sEmps = {Emp(6, 2)}
  /\ sEntries \in {{Entry(9, 2, 6, 4, 0, 20)}, {}}
  /\ nextId = FirstFreeId
  /\ Settled(DraftOps)

NextDraft ==
  \/ \E i \in Ids(items), raw \in DraftRaws : HandleRateChange(i, raw)
  \/ \E e \in Ids(employees), i \in Ids(items), d \in EditDays, raw \in DraftRaws :
       OfferedCell(e, i) /\ HandleProductionChange(e, i, d, raw)
  \/ SaveStart
  \/ \E k \in 1..Len(sv) : SaveCommit(k)
  \/ \E k \in 1..Len(sv) : SaveRejected(k)
  \/ \E t \in DOMAIN itemSubs : ItemsSnapshot(t)
  \/ \E p \in DOMAIN prodSubs : ProductionSnapshot(p[1], p[2])
  \/ Render
  \/ RunEffects

SpecDraft == InitDraft /\ [][NextDraft]_vars

\* C6 (as claimed): a saveAllChanges() called after a save that succeeded,
\* with no overlay edit since, puts no operation in its batch, whether or
\* not the subscriptions have redelivered the first save's changes.
SecondSaveEmpty ==
  (last.op = "saveAllChanges" /\ last.step = "call" /\ last.afterSave)
    => (last.rates = {} /\ last.entries = <<>>)

\* The overlay entries a batch creates.
CreatedIds(ops) == {ops[k].entry.id : k \in {j \in 1..Len(ops) : ops[j].kind = "create"}}

\* C7: in the batch saveAllChanges() builds, no overlay entry with a locally
\* synthesized id and quantity 0 is created, and every locally synthesized
\* entry that is created has a quantity other than 0.
PlaceholderSuppression ==
  (last.op = "saveAllChanges" /\ last.step = "call")
    => \A k \in 1..Len(localProduction) :
         LET x == localProduction[k]
         IN IsLocalId(x.id) =>
              /\ x.quantity = 0 => x.id \notin CreatedIds(last.entries)
              /\ x.id \in CreatedIds(last.entries) => x.quantity # 0

\* A save whose overlay holds an untouched placeholder and an edited local
\* entry: the batch creates the second and not the first.
PlaceholderSkipped ==
  /\ last.op = "saveAllChanges" /\ last.step = "call"
  /\ \E j, k \in 1..Len(localProduction) :
       /\ IsLocalId(localProduction[j].id) /\ localProduction[j].quantity = 0
       /\ employees # <<>> /\ localProduction[j].employeeId \in Ids(employees)
       /\ IsLocalId(localProduction[k].id) /\ localProduction[k].quantity > 0
       /\ localProduction[k].id \in CreatedIds(last.entries)

\* C9 (as claimed): every payRate and quantity of the Draft Overlay, and
\* every payRate and quantity in the backing store, is at least 0, for every
\* raw input given to setRate and setProductionQuantity.
NonNegative ==
  /\ \A i \in DOMAIN localRates : localRates[i] >= 0
  /\ \A k \in 1..Len(localProduction) : localProduction[k].quantity >= 0
  /\ \A d \in sItems : d.payRate >= 0
  /\ \A d \in sEntries : d.quantity >= 0

\* C10 (as claimed): the backing store never holds two production entries
\* with the same (employeeId, productionItemId, date).
EntryUnique ==
  \A a, b \in sEntries :
    (a.employeeId = b.employeeId /\ a.productionItemId = b.productionItemId
       /\ a.date = b.date) => a = b

(***************************************************************************)
(* The coercion scenario: setRate and setProductionQuantity applied to     *)
(* every raw string, on a cell that has an entry, on a cell that has a     *)
(* placeholder and on a day index the overlay has nothing for.             *)
(***************************************************************************)
\* dayIndex 6 is the Sunday after the week the overlay is filled for.
CoerceDays == {0, 1, LastDayOffset + 1}

\* The raw string is drawn first; one of the two operations is then applied
\* to it.
InitCoerce ==
  /\ sTeams = {Team2}
  /\ sItems = {Item(4, 2, "Blanca", 13)}
  /\ sEmps = {Emp(6, 2)}
  /\ sEntries = {Entry(9, 2, 6, 4, 0, 20)}
  /\ nextId = FirstFreeId
  /\ shortWeek \in BOOLEAN
  /\ Converged
  /\ last \in [op : {"input"}, raw : RawStrings]
  /\ opsLeft = 1

NextCoerce ==
  \/ \E i \in Ids(items) : last.op = "input" /\ HandleRateChange(i, last.raw)
  \/ \E e \in Ids(employees), i \in Ids(items), d \in CoerceDays :
       last.op = "input" /\ HandleProductionChange(e, i, d, last.raw)

SpecCoerce == InitCoerce /\ [][NextCoerce]_vars

\* What a string spells, read as a whole, the white space around it aside.
RECURSIVE TrimEnd(_)
TrimEnd(s) == IF s # <<>> /\ s[Len(s)] = " " THEN TrimEnd(SubSeq(s, 1, Len(s) - 1)) ELSE s
Trim(s) == TrimEnd(TrimStart(s))
Unsigned(s) == IF s # <<>> /\ s[1] \in Signs THEN Tail(s) ELSE s
Signed(s, n) == IF s # <<>> /\ s[1] = "-" THEN 0 - n ELSE n
Points(s) == {k \in 1..Len(s) : s[k] = "."}
Exponents(s) == {k \in 1..Len(s) : s[k] = "e"}

IsDigitsText(s) == s # <<>> /\ \A k \in 1..Len(s) : s[k] \in Digits

\* An integer: an optional sign and one digit or more.
IsIntegerText(s) == IsDigitsText(Unsigned(Trim(s)))
IntegerValue(s) == Signed(Trim(s), DigitsValue(Unsigned(Trim(s))))

\* A decimal: digits with at most one decimal point among them, one digit
\* at least.  An exponent: nothing, or e, an optional sign and digits.
IsDecimalText(u) ==
  /\ \A k \in 1..Len(u) : u[k] \in Digits \cup {"."}
  /\ Cardinality(Points(u)) <= 1
  /\ \E k \in 1..Len(u) : u[k] \in Digits
IsExponentText(x) == x = <<>> \/ (x[1] = "e" /\ IsDigitsText(Unsigned(Tail(x))))

\* A number: an optional sign, then the word Infinity or a decimal with an
\* exponent.
IsNumberText(s) ==
  LET u == Unsigned(Trim(s))
  IN \/ u = <<"Infinity">>
     \/ \E k \in 1..Len(u) :
          IsDecimalText(SubSeq(u, 1, k)) /\ IsExponentText(SubSeq(u, k + 1, Len(u)))
NumberValue(s) ==
  LET u == Unsigned(Trim(s))
      e == IF Exponents(u) = {} THEN Len(u) + 1 ELSE CHOOSE k \in Exponents(u) : TRUE
      d == SubSeq(u, 1, e - 1)
      x == SubSeq(u, e + 1, Len(u))
      p == IF Points(d) = {} THEN Len(d) + 1 ELSE CHOOSE k \in Points(d) : TRUE
      whole == SubSeq(d, 1, p - 1)
      frac == SubSeq(d, p + 1, Len(d))
      mant == DigitsValue(whole) * Scale + DigitsValue(frac) * (Scale \div Pow10(Len(frac)))
      mag == IF u = <<"Infinity">> THEN Infinity
             ELSE IF x # <<>> /\ x[1] = "-" THEN mant \div Pow10(DigitsValue(Unsigned(x)))
             ELSE mant * Pow10(DigitsValue(Unsigned(x)))
  IN Signed(Trim(s), mag)

\* The overlay entries of the cell the last setProductionQuantity named.
LastCell ==
  {k \in 1..Len(localProduction) : /\ localProduction[k].employeeId = last.employee
                                   /\ localProduction[k].productionItemId = last.item
                                   /\ localProduction[k].date = last.day}

\* The value the last edit left in the overlay is v.
Stored(rate(_), quantity(_)) ==
  /\ last.op = "setRate" =>
       /\ last.item \in DOMAIN localRates
       /\ localRates[last.item] = rate(last.raw)
       /\ hasChanges
  /\ last.op = "setProductionQuantity" =>
       /\ Cardinality(LastCell) = 1
       /\ \A k \in LastCell : localProduction[k].quantity = quantity(last.raw)
       /\ hasChanges

WholeRate(raw) == IF IsNumberText(raw) THEN NumberValue(raw) ELSE 0
WholeQuantity(raw) == IF IsIntegerText(raw) THEN IntegerValue(raw) ELSE 0

\* C8 (as claimed): setRate stores 0 when raw is empty or not a number and
\* the number it spells otherwise; setProductionQuantity stores 0 when raw is
\* empty or not an integer and the integer it spells otherwise, whether or
\* not the overlay had an entry for the cell; both accept every string and
\* both set the dirty flag.
CoercionWhole ==
  /\ Stored(WholeRate, WholeQuantity)
  /\ last.op = "input" =>
       /\ \A i \in Ids(items) : ENABLED HandleRateChange(i, last.raw)
       /\ \A e \in Ids(employees) : \A i \in Ids(items) : \A d \in CoerceDays :
            ENABLED HandleProductionChange(e, i, d, last.raw)

(***************************************************************************)
(* The provisioning scenario: one team with its catalog and no employee;   *)
(* the user adds a team and then employees, the team listener backfills    *)
(* the catalog of the new team, and every notification is delivered in any *)
(* order.                                                                  *)
(***************************************************************************)
InitProvision ==
  /\ sTeams = {Team2}
  /\ sItems = {Item(4, 2, "Blanca", 13)}
  /\ sEmps = {}
  /\ sEntries = {}
  /\ nextId = FirstFreeId
  /\ Settled(ProvisionOps)

NextProvision ==
  \/ opsLeft = ProvisionOps /\ AddTeam("Corazones")
  \/ opsLeft < ProvisionOps /\ \E t \in Ids(teams) : AddEmployeeStart(t)
  \/ \E k \in 1..Len(ae) : AddEmployeeDoc(k)
  \/ \E k \in 1..Len(ae) : AddEmployeeEntries(k)
  \/ TeamsSnapshot
  \/ \E k \in 1..Len(handlers) : BackfillRead(k)
  \/ \E k \in 1..Len(handlers) : BackfillCommit(k)
  \/ \E t \in DOMAIN itemSubs : ItemsSnapshot(t)
  \/ \E t \in DOMAIN empSubs : EmployeesSnapshot(t)
  \/ \E p \in DOMAIN prodSubs : ProductionSnapshot(p[1], p[2])
  \/ Render
  \/ RunEffects

SpecProvision == InitProvision /\ [][NextProvision]_vars

\* The step in which addDoc of addEmployee resolves, and the step in which
\* its batch of entries is committed.
EmployeeInserted ==
  ae' # ae /\ last'.op = "addEmployee" /\ last'.step = "addDoc" /\ errors' = errors
EntriesCommitted ==
  ae' # ae /\ last'.op = "addEmployee" /\ last'.step = "entries" /\ errors' = errors

\* The documents a step adds to the store are those of S' that S lacks.
OneEmployeeAdded ==
  /\ sEmps \subseteq sEmps'
  /\ \E d \in sEmps' \ sEmps :
       /\ sEmps' \ sEmps = {d}
       /\ d.path = last'.call.team /\ d.teamId = last'.call.team

\* One entry of quantity 0 for every (item of its, weekday) and no other.
EntriesProvisioned(its) ==
  LET new == sEntries' \ sEntries
  IN /\ sEntries \subseteq sEntries'
     /\ \A i \in its : \A d \in 0..LastDayOffset :
          Cardinality({x \in new : x.productionItemId = i /\ x.date = d}) = 1
     /\ \A x \in new : /\ x.path = last'.call.team /\ x.emp = last'.call.emp
                       /\ x.employeeId = last'.call.emp
                       /\ x.productionItemId \in its /\ x.date \in 0..LastDayOffset
                       /\ x.quantity = 0
     /\ Cardinality(new) = (LastDayOffset + 1) * Cardinality(its)

\* What addEmployee does once it holds its list of items, teamItems.
ProvisionsFor ==
  /\ EmployeeInserted =>
       /\ OneEmployeeAdded /\ sEntries' = sEntries
       /\ last'.call.teamItems = <<>> => (Len(ae') < Len(ae) /\ errors' = errors)
  /\ EntriesCommitted =>
       /\ EntriesProvisioned(Range(last'.call.teamItems)) /\ sEmps' = sEmps
       /\ last'.call.teamItems # <<>>

\* C11 (as claimed): addEmployee inserts one employee and then creates, in
\* one batch, one entry of quantity 0 for every (item existing for the team
\* when it is called, weekday) and no other; with no item it creates no entry
\* and raises no error.
ProvisionsExistingItems ==
  [][/\ ProvisionsFor
     /\ Len(ae') > Len(ae) =>
          Range(last'.call.teamItems) = {d.id : d \in ItemDocs(last'.call.team)}]_vars

(***************************************************************************)
(* The batch of saveAllChanges, read in the state the call leaves: the     *)
(* call changes neither the overlay nor the Aggregate Store.               *)
(***************************************************************************)
SaveCalled == last.op = "saveAllChanges" /\ last.step = "call"

\* The overlay entries the batch updates.
UpdatedIds(ops) == {ops[k].entry.id : k \in {j \in 1..Len(ops) : ops[j].kind = "update"}}

\* Overlay rates that differ from the payRate of the Aggregate Store's item.
ChangedRates ==
  {i \in DOMAIN localRates :
     \E x \in Range(items) : x.id = i /\ x.payRate # localRates[i]}

\* Overlay entries with the id of an Aggregate Store entry of another quantity.
ChangedEntries ==
  {x \in Range(localProduction) :
     \E p \in Range(production) : p.id = x.id /\ p.quantity # x.quantity}

\* The batch holds the rate updates of ChangedRates, the quantity updates of
\* upd, the creates of new, each once and with the overlay's value, and
\* nothing else.
BatchIs(upd, new) ==
  /\ {r.item : r \in last.rates} = ChangedRates
  /\ \A r \in last.rates : r.payRate = localRates[r.item]
  /\ Cardinality(last.rates) = Cardinality(ChangedRates)
  /\ UpdatedIds(last.entries) = {x.id : x \in upd}
  /\ CreatedIds(last.entries) = {x.id : x \in new}
  /\ Len(last.entries) = Cardinality(upd) + Cardinality(new)
  /\ \A k \in 1..Len(last.entries) : last.entries[k].entry \in upd \cup new

\* C12 (as claimed): the batch holds one payRate update per overlay rate that
\* differs from the Aggregate Store, one quantity update per overlay entry
\* with a store-assigned id whose quantity differs, one create per overlay
\* entry with a locally synthesized id and a quantity other than 0, and
\* nothing else.
BatchExactNonZero ==
  SaveCalled =>
    BatchIs({x \in ChangedEntries : ~IsLocalId(x.id)},
            {x \in Range(localProduction) : IsLocalId(x.id) /\ x.quantity # 0})

(***************************************************************************)
(* Convergence: the draft scenario with every pending snapshot delivered   *)
(* in the end (the store notifies each live listener of each change).      *)
(***************************************************************************)
SpecDraftFair ==
  /\ SpecDraft
  /\ WF_vars(Render)
  /\ WF_vars(RunEffects)
  /\ \A t \in {Team2.id} : WF_vars(ItemsSnapshot(t))
  /\ \A e \in {6} : WF_vars(ProductionSnapshot(Team2.id, e))

\* The Aggregate Store holds the store's rates and quantities, the overlay
\* is the copy the reset makes of it, and the dirty flag is false.
Baselined ==
  /\ \A d \in sItems : \E x \in Range(items) : x.id = d.id /\ x.payRate = d.payRate
  /\ \A d \in sEntries : \E x \in Range(production) : x.id = d.id /\ x.quantity = d.quantity
  /\ localRates = InitialRates(items)
  /\ localProduction = InitialProduction(items, production, employees)
  /\ ~hasChanges

\* A save has just succeeded whose batch is the one the overlay calls for:
\* no edit was made while the commit was in flight.
SavedAll ==
  /\ savedClean
  /\ last.op = "saveAllChanges" /\ last.step = "commit" /\ last.outcome = "resolved"
  /\ last.rates = RateOps(localRates, items)
  /\ last.entries = EntryOps(localProduction, production, employees)

\* C13 (as claimed): after a save that succeeded, unless an edit follows, the
\* Aggregate Store comes to hold what was saved, the overlay comes to equal
\* it and the dirty flag is false.
ConvergesAfterSave == SavedAll ~> (Baselined \/ ~savedClean)


(***************************************************************************)
(* Outcome of saveAllChanges.                                              *)
(***************************************************************************)
SaveSettles == Len(sv') < Len(sv)

RejectedNow ==
  last.op = "saveAllChanges" /\ last.step = "commit" /\ last.outcome = "rejected"

\* C14: when the commit of saveAllChanges succeeds the dirty flag is set to
\* false (false is the value last set for it, which the next render shows);
\* when it is rejected the dirty flag keeps its value (a true flag stays
\* true), the Draft Overlay, the Aggregate Store and the backing store are
\* unchanged and nothing is set for them, no commit is left in flight,
\* exactly one "write" error event is emitted and the call ends rejected.
SaveOutcome ==
  [][SaveSettles =>
       /\ last'.op = "saveAllChanges" /\ last'.step = "commit"
       /\ last'.outcome \in {"resolved", "rejected"}
       /\ last'.outcome = "resolved" =>
            ("hasChanges" \in DOMAIN queued' /\ ~queued'.hasChanges)
       /\ last'.outcome = "rejected" =>
            /\ hasChanges' = hasChanges
            /\ localRates' = localRates
            /\ localProduction' = localProduction
            /\ UNCHANGED <<storeVars, aggVars, queued>>
            /\ Len(sv') = Len(sv) - 1
            /\ Len(errors') = Len(errors) + 1
            /\ errors'[Len(errors')].operation = "write"
            /\ SubSeq(errors', 1, Len(errors)) = errors]_vars

\* A save of an edited quantity was rejected: the flag is still set, the
\* edit is still in the overlay and one error event was emitted.
RejectedSaveKeepsDraft ==
  /\ RejectedNow
  /\ last.entries # <<>>
  /\ hasChanges
  /\ EntryOps(localProduction, production, employees) = last.entries
  /\ Len(errors) = 1
  /\ sv = <<>>


(***************************************************************************)
(* The synchronisation scenario: two teams, each with one item, one        *)
(* employee and one entry; the user edits rates and cells, resets a team,  *)
(* adds an employee and saves, and every notification is delivered in any  *)
(* order.                                                                  *)
(***************************************************************************)
SyncOps == 2

\* What the number inputs hand over in this scenario.
SyncRaws == {<<"2">>}

InitSync ==
  /\ sTeams = {Team1, Team2}
  /\ sItems = {Item(3, 1, "Chico", 10), Item(4, 2, "Blanca", 13)}
  /\ sEmps = {Emp(5, 1), Emp(6, 2)}
  /\ sEntries = {Entry(8, 1, 5, 3, 0, 3), Entry(9, 2, 6, 4, 0, 20)}
  /\ nextId = FirstFreeId
  /\ SettledAnyWeek(SyncOps)

NextSync ==
  \/ \E i \in Ids(items), raw \in SyncRaws : HandleRateChange(i, raw)
  \/ \E e \in Ids(employees), i \in Ids(items), d \in EditDays, raw \in SyncRaws :
       OfferedCell(e, i) /\ HandleProductionChange(e, i, d, raw)
  \/ \E t \in Ids(teams) : ResetProduction(t)
  \/ \E t \in {Team2.id} : AddEmployeeStart(t)
  \/ \E k \in 1..Len(ae) : AddEmployeeDoc(k)
  \/ \E k \in 1..Len(ae) : AddEmployeeEntries(k)
  \/ \E k \in 1..Len(ae) : AddEmployeeRejected(k)
  \/ SaveStart
  \/ \E k \in 1..Len(sv) : SaveCommit(k)
  \/ \E k \in 1..Len(sv) : SaveRejected(k)
  \/ \E t \in DOMAIN itemSubs : ItemsSnapshot(t)
  \/ \E t \in DOMAIN empSubs : EmployeesSnapshot(t)
  \/ \E p \in DOMAIN prodSubs : ProductionSnapshot(p[1], p[2])
  \/ Render
  \/ RunEffects

SpecSync == InitSync /\ [][NextSync]_vars


(***************************************************************************)
(* Reset on sync.                                                          *)
(***************************************************************************)
AggregateChanged ==
  items' # items \/ production' # production \/ employees' # employees

\* C15 (as claimed): every step that changes the Aggregate Store's items,
\* production or employees leaves the overlay with exactly the Aggregate
\* Store's rates,
\* with every Aggregate Store entry as it is there under its id, with
\* nothing else but placeholders of quantity 0 (so no unsaved edit is left),
\* and with the dirty flag false.
ResetOnSync ==
  [][AggregateChanged =>
       /\ DOMAIN localRates' = Ids(items')
       /\ \A k \in 1..Len(items') : localRates'[items'[k].id] = items'[k].payRate
       /\ \A k \in 1..Len(production') :
            /\ \E j \in 1..Len(localProduction') : localProduction'[j] = production'[k]
            /\ \A j \in 1..Len(localProduction') :
                 localProduction'[j].id = production'[k].id
                   => localProduction'[j] = production'[k]
       /\ \A j \in 1..Len(localProduction') :
            \/ localProduction'[j] \in Range(production')
            \/ /\ localProduction'[j].quantity = 0
               /\ localProduction'[j].id =
                    PlaceholderId(localProduction'[j].employeeId,
                                  localProduction'[j].productionItemId,
                                  localProduction'[j].date)
       /\ ~hasChanges']_vars


(***************************************************************************)
(* Draft edits stay local.                                                 *)
(***************************************************************************)
EditOps == {"setRate", "setProductionQuantity", "resetProduction"}

EditStep == opsLeft' = opsLeft - 1 /\ last'.op \in EditOps

SaveCommitted ==
  last'.op = "saveAllChanges" /\ last'.step = "commit" /\ last'.outcome = "resolved"
    /\ Len(sv') < Len(sv)

\* C16: a step of setRate, setProductionQuantity or reset leaves the backing
\* store unchanged, sets nothing for the Aggregate Store (the render that
\* ends the event shows the Aggregate Store the notifications delivered
\* before had queued, and the effects that run in the event queue nothing
\* for teams, items, employees or production) and starts no write (no
\* operation is left in flight that was not, no error event); and the
\* payRate of an item document or the quantity of an entry document differs
\* before and after a step only when the step is a commit of saveAllChanges.
EditsStayLocal ==
  [][/\ EditStep =>
          /\ UNCHANGED storeVars
          /\ aggVars' = Rendered(EffectUpdates(due, teams, items, production, employees)
                                   @@ queued)
          /\ DOMAIN queued' \cap {"teams", "items", "employees", "production"} = {}
          /\ UNCHANGED <<procVars, errors>>
     /\ (\E d \in sItems, c \in sItems' :
           d.id = c.id /\ d.path = c.path /\ d.payRate # c.payRate) => SaveCommitted
     /\ (\E d \in sEntries, c \in sEntries' :
           d.id = c.id /\ d.path = c.path /\ d.emp = c.emp /\ d.quantity # c.quantity)
          => SaveCommitted]_vars

\* After reset(2) the overlay has quantity 0 for an entry whose document
\* still has quantity 20, and the Aggregate Store still shows 20.
ResetNotWritten ==
  /\ last.op = "resetProduction"
  /\ hasChanges
  /\ \E j \in 1..Len(localProduction), d \in sEntries, k \in 1..Len(production) :
       /\ localProduction[j].id = d.id /\ production[k].id = d.id
       /\ localProduction[j].quantity = 0
       /\ d.quantity = 20 /\ production[k].quantity = 20


(***************************************************************************)
(* reset(teamId).                                                          *)
(***************************************************************************)
ResetStep == opsLeft' = opsLeft - 1 /\ last'.op = "resetProduction"

\* The team of the employee an overlay entry is of, as the Aggregate Store
\* has it; 0 when the Aggregate Store has no such employee.
TeamOfEmployee(e) ==
  IF FindById(employees, e) = 0 THEN 0 ELSE employees[FindById(employees, e)].teamId

\* The overlay after the step has the entries it had before in number,
\* order and id, with quantity 0 in every entry whose employee belongs to the
\* team and every other entry as it was.
TeamZeroed ==
  /\ Len(localProduction') = Len(localProduction)
  /\ \A k \in 1..Len(localProduction) :
       /\ localProduction'[k].id = localProduction[k].id
       /\ IF TeamOfEmployee(localProduction[k].employeeId) = last'.team
            THEN localProduction'[k] = [localProduction[k] EXCEPT !.quantity = 0]
            ELSE localProduction'[k] = localProduction[k]

\* C17 (as claimed): every step of reset(teamId) keeps the overlay's entries
\* in number, order and id, gives quantity 0 to every entry whose employee
\* belongs to the team, leaves every other entry as it was and sets the
\* dirty flag.
ResetAlwaysApplies == [][ResetStep => (TeamZeroed /\ hasChanges')]_vars

\* C17 (amended): a step of reset(teamId) leaves the backing store unchanged
\* and sets nothing for the Aggregate Store (the render that ends the event
\* shows what the notifications delivered before had queued).  Unless the
\* overlay reset that follows a change of the Aggregate Store is still due,
\* it keeps the overlay's entries in number, order and id (nothing is
\* deleted or added), gives quantity 0 to every entry whose employee belongs
\* to the team, leaves every other entry as it was and every overlay rate
\* with the value last set for it, and sets the dirty flag.  When that
\* reset is due it runs in the same event and takes precedence: the overlay
\* is the copy of the Aggregate Store and the dirty flag is false.
ResetScoped ==
  [][ResetStep =>
       /\ IF "reset" \in due
            THEN [localRates |-> localRates', localProduction |-> localProduction',
                  hasChanges |-> hasChanges'] = ResetOverlay(items, production, employees)
            ELSE /\ TeamZeroed
                 /\ localRates' = Latest(queued, "localRates", localRates)
                 /\ hasChanges'
       /\ UNCHANGED storeVars
       /\ aggVars' = Rendered(EffectUpdates(due, teams, items, production, employees)
                                @@ queued)
       /\ DOMAIN queued' \cap {"teams", "items", "employees", "production"} = {}]_vars

\* reset(2) after an edit of a cell of team 1: the entries of employee 6 of
\* team 2 are all 0, one of them being the stored entry of quantity 20, and
\* the edited cell of employee 5 of team 1 still holds 2.
ResetLeftOtherTeam ==
  /\ last.op = "resetProduction" /\ last.team = Team2.id
  /\ hasChanges
  /\ \A j \in 1..Len(localProduction) :
       localProduction[j].employeeId = 6 => localProduction[j].quantity = 0
  /\ \E j \in 1..Len(localProduction), k \in 1..Len(production) :
       /\ localProduction[j].id = production[k].id
       /\ localProduction[j].employeeId = 6 /\ production[k].quantity = 20
  /\ \E j \in 1..Len(localProduction) :
       localProduction[j].employeeId = 5 /\ localProduction[j].quantity = 2


(***************************************************************************)
(* The cell scenario: one employee with one stored entry; cells of Monday, *)
(* Tuesday, Saturday (which the overlay of a short week has nothing for)   *)
(* and of day index 6, which no overlay has anything for, are edited in    *)
(* any sequence, saved, and the notifications delivered.                   *)
(***************************************************************************)
CellOps == 3

CellRaws == {<<>>, <<"2">>}

CellDays == {0, 1, LastDayOffset, LastDayOffset + 1}

InitCells ==
  /\ sTeams = {Team2}
  /\ sItems = {Item(4, 2, "Blanca", 13)}
  /\ sEmps = {Emp(6, 2)}
  /\ sEntries = {Entry(9, 2, 6, 4, 0, 20)}
  /\ nextId = FirstFreeId
  /\ SettledAnyWeek(CellOps)

NextCells ==
  \/ \E e \in Ids(employees), i \in Ids(items), d \in CellDays, raw \in CellRaws :
       OfferedCell(e, i) /\ HandleProductionChange(e, i, d, raw)
  \/ SaveStart
  \/ \E k \in 1..Len(sv) : SaveCommit(k)
  \/ \E k \in 1..Len(sv) : SaveRejected(k)
  \/ \E p \in DOMAIN prodSubs : ProductionSnapshot(p[1], p[2])
  \/ Render
  \/ RunEffects

SpecCells == InitCells /\ [][NextCells]_vars

SameTriple(a, b) ==
  a.employeeId = b.employeeId /\ a.productionItemId = b.productionItemId /\ a.date = b.date

\* No two positions of the sequence hold entries of one (employee, item, date).
TripleUnique(s) == \A j, k \in 1..Len(s) : SameTriple(s[j], s[k]) => j = k

CellStep == opsLeft' = opsLeft - 1 /\ last'.op = "setProductionQuantity"

\* C18 (as claimed): a step of setProductionQuantity(e, i, d, raw) on an
\* overlay that has an entry for (e, i, d) changes the quantity of that
\* entry only, keeping every id and adding nothing; on an overlay that has
\* none it adds exactly one entry, for (e, i, d), with a locally
\* synthesized id.  In every state
\* in which the Aggregate Store has at most one entry per (employee, item,
\* date), so has the Draft Overlay.
InPlaceOrOneNew ==
  /\ TripleUnique(production) => TripleUnique(localProduction)
  /\ [][/\ TripleUnique(production') => TripleUnique(localProduction')
        /\ CellStep =>
             LET k == FindEntry(localProduction, last'.employee, last'.item, last'.day)
                 n == Len(localProduction)
             IN IF k # 0
                  THEN /\ Len(localProduction') = n
                       /\ \A j \in 1..n :
                            /\ localProduction'[j].id = localProduction[j].id
                            /\ j # k => localProduction'[j] = localProduction[j]
                       /\ SameTriple(localProduction'[k], localProduction[k])
                       /\ localProduction'[k].date = last'.day
                  ELSE /\ Len(localProduction') = n + 1
                       /\ SubSeq(localProduction', 1, n) = localProduction
                       /\ IsLocalId(localProduction'[n + 1].id)
                       /\ localProduction'[n + 1].employeeId = last'.employee
                       /\ localProduction'[n + 1].productionItemId = last'.item
                       /\ localProduction'[n + 1].date = last'.day]_vars


(***************************************************************************)
(* Placeholder filling.                                                    *)
(***************************************************************************)
\* The cells the tables show: an employee of the Aggregate Store, an item of
\* that employee's team, a day from Monday to Saturday.
ShownCells ==
  {c \in [e : Range(employees), i : Range(items), d : WeekDays] : c.i.teamId = c.e.teamId}

Covered == \A c \in ShownCells : HasTriple(localProduction, c.e.id, c.i.id, c.d)

\* Every cell the Aggregate Store has no entry for has, in the overlay, the
\* placeholder of quantity 0 and nothing else.
FreshPlaceholders ==
  \A c \in ShownCells :
    ~HasTriple(production, c.e.id, c.i.id, c.d) =>
      /\ \E j \in 1..Len(localProduction) :
           localProduction[j] = Placeholder(c.e.id, c.i.id, c.d)
      /\ \A j \in 1..Len(localProduction) :
           (/\ localProduction[j].employeeId = c.e.id
            /\ localProduction[j].productionItemId = c.i.id
            /\ localProduction[j].date = c.d)
             => /\ localProduction[j].quantity = 0
                /\ localProduction[j].id = PlaceholderId(c.e.id, c.i.id, c.d)

\* The render that shows an overlay reset (the reset effect ran before it or
\* runs in it) and no change of the Aggregate Store with it.
ResetShown ==
  /\ last'.op = "render"
  /\ "localProduction" \in DOMAIN queued \/ "reset" \in due
  /\ DOMAIN queued \cap {"teams", "items", "employees", "production"} = {}

\* C19 (as claimed): in the state each overlay reset leaves, the overlay
\* holds an entry for every (employee of the Aggregate Store, item of that
\* employee's team, day from Monday to Saturday), and every such cell the
\* Aggregate Store has no entry for holds a placeholder with a locally
\* synthesized id and quantity 0.
PlaceholderFilling ==
  [][ResetShown => (Covered' /\ FreshPlaceholders')]_vars


(***************************************************************************)
(* The bootstrap scenario: the provider is mounted on an empty store, in a  *)
(* week without a clock change, and waits for the first team notification. *)
(***************************************************************************)
InitSeed ==
  /\ shortWeek = FALSE
  /\ sTeams = {}
  /\ sItems = {}
  /\ sEmps = {}
  /\ sEntries = {}
  /\ nextId = FirstFreeId
  /\ teams = <<>>
  /\ items = <<>>
  /\ employees = <<>>
  /\ production = <<>>
  /\ loading = FALSE
  /\ allItems = <<>>
  /\ allEmployees = <<>>
  /\ allProduction = <<>>
  /\ teamsProcessed = 0
  /\ totalTeams = 0
  /\ teamsSub = [live |-> TRUE, got |-> FALSE, docs |-> <<>>]
  /\ itemSubs = <<>>
  /\ empSubs = <<>>
  /\ prodSubs = <<>>
  /\ handlers = <<>>
  /\ localRates = InitialRates(<<>>)
  /\ localProduction = <<>>
  /\ hasChanges = FALSE
  /\ savedClean = FALSE
  /\ queued = NoUpdates
  /\ due = {}
  /\ dt = <<>>
  /\ de = <<>>
  /\ ae = <<>>
  /\ sv = <<>>
  /\ errors = <<>>
  /\ last = [op |-> "init"]
  /\ opsLeft = 0

SeedWritten ==
  /\ last'.op = "seedCommit" /\ last'.outcome = "resolved"
  /\ \E k \in 1..Len(handlers) : handlers[k].pc = "seedCommit"

\* C20 (as claimed): a step writes default teams or seed items only when the
\* handler's server read of the Team collection succeeded and showed it
\* empty, never when the read failed or the collection held a team; and
\* the step that writes them writes every default team and, for each, its
\* whole default catalog at once.
SeedsOnlyIfReadEmpty ==
  [][SeedWritten =>
       /\ last'.read = "empty"
       /\ {d.name : d \in sTeams' \ sTeams} = Range(DefaultTeams)
       /\ \A t \in sTeams' \ sTeams :
            {<<d.name, d.payRate>> : d \in {x \in sItems' \ sItems : x.path = t.id}}
              = {<<c[1], c[2] * Scale>> : c \in Range(DefaultItems(t.name))}]_vars


(***************************************************************************)
(* A rejected seeding batch.                                               *)
(***************************************************************************)
SeedRejectedStep ==
  /\ last'.op = "seedCommit" /\ last'.outcome = "rejected"
  /\ \E k \in 1..Len(handlers) : handlers[k].pc = "seedCommit"

\* C21 (as claimed): the step in which the seeding batch is rejected emits
\* exactly one "write" error event, leaves the handler running (it goes on
\* to the backfill loop), and hands the Aggregate Store, as the teams the
\* child subscriptions are to be set up for, exactly the teams that exist
\* in the backing store.
SeedRejectionNonFatal ==
  [][SeedRejectedStep =>
       /\ Len(errors') = Len(errors) + 1
       /\ errors'[Len(errors')] = [operation |-> "write", path |-> TeamsPath]
       /\ \E k \in 1..Len(handlers') : handlers'[k].pc = "backfill"
       /\ "teams" \in DOMAIN queued'
       /\ Range(Latest(queued', "teams", teams')) = {TeamData(d) : d \in sTeams'}]_vars


(***************************************************************************)
(* The removal scenario: one team with one item and two employees, one of  *)
(* them with a stored entry; cells are edited and saved and employees are  *)
(* deleted, every await may be rejected, and the notifications are         *)
(* delivered in any order.                                                 *)
(***************************************************************************)
RemoveOps == 3

InitRemove ==
  /\ sTeams = {Team2}
  /\ sItems = {Item(4, 2, "Blanca", 13)}
  /\ sEmps = {Emp(6, 2), Emp(7, 2)}
  /\ sEntries = {Entry(9, 2, 6, 4, 0, 20)}
  /\ nextId = FirstFreeId
  /\ Settled(RemoveOps)

NextRemove ==
  \/ \E e \in {6}, i \in Ids(items), d \in {1}, raw \in SyncRaws :
       OfferedCell(e, i) /\ HandleProductionChange(e, i, d, raw)
  \/ SaveStart
  \/ \E k \in 1..Len(sv) : SaveCommit(k)
  \/ \E k \in 1..Len(sv) : SaveRejected(k)
  \/ \E x \in Range(employees) : DeleteEmployeeStart(x.id, x.teamId)
  \/ \E k \in 1..Len(de) : DeleteEmployeeRead(k)
  \/ \E k \in 1..Len(de) : DeleteEmployeeCommit(k)
  \/ \E k \in 1..Len(de) : DeleteEmployeeDoc(k)
  \/ \E k \in 1..Len(de) : DeleteEmployeeRejected(k)
  \/ \E t \in DOMAIN empSubs : EmployeesSnapshot(t)
  \/ \E p \in DOMAIN prodSubs : ProductionSnapshot(p[1], p[2])
  \/ Render
  \/ RunEffects

SpecRemove == InitRemove /\ [][NextRemove]_vars

\* C22 (as claimed): in every state the backing store holds no production
\* entry under an employee whose document does not exist.
NoOrphanEntries ==
  \A d \in sEntries : \E e \in sEmps : e.path = d.path /\ e.id = d.emp


(***************************************************************************)
(* The backfill scenario: two teams with an item each; a team is added and *)
(* the team listener gives each new team the default catalog.  The store   *)
(* accepts every write; the listener delivers every change of the team     *)
(* collection and every await of a handler returns.                        *)
(***************************************************************************)
BackfillOps == 1

InitBackfill ==
  /\ sTeams = {Team1, Team2}
  /\ sItems = {Item(3, 1, "Chico", 10), Item(4, 2, "Blanca", 13)}
  /\ sEmps = {}
  /\ sEntries = {}
  /\ nextId = FirstFreeId
  /\ Settled(BackfillOps)

NextBackfill ==
  \/ AddTeam("Corazones")
  \/ TeamsSnapshot
  \/ \E k \in 1..Len(handlers) : BackfillRead(k)
  \/ \E k \in 1..Len(handlers) : BackfillCommit(k)
  \/ \E t \in DOMAIN itemSubs : ItemsSnapshot(t)
  \/ \E t \in DOMAIN empSubs : EmployeesSnapshot(t)
  \/ Render
  \/ RunEffects


SpecBackfill == InitBackfill /\ [][NextBackfill]_vars

SpecBackfillFair ==
  /\ SpecBackfill
  /\ WF_vars(Render)
  /\ WF_vars(RunEffects)
  /\ WF_vars(TeamsSnapshot)
  /\ WF_vars(\E k \in 1..Len(handlers) : BackfillRead(k))
  /\ WF_vars(\E k \in 1..Len(handlers) : BackfillCommit(k))

\* The ids a team added in this scenario can get: each addTeam and each
\* catalog of at most four items takes ids from FirstFreeId on.
AddedTeamIds == FirstFreeId..(FirstFreeId + 5 * BackfillOps - 1)

AddTeamStep == opsLeft' = opsLeft - 1 /\ last'.op = "addTeam" /\ last'.outcome = "resolved"

TeamExists(t) == \E d \in sTeams : d.id = t

\* C23: a step of addTeam that resolves adds exactly one team document and
\* no item document; and every team that is in the backing store with no
\* item eventually has at least one item.
BackfillReachesNewTeam ==
  /\ [][AddTeamStep => /\ Cardinality(sTeams' \ sTeams) = 1
                       /\ sTeams \subseteq sTeams'
                       /\ sItems' = sItems]_vars
  /\ \A t \in AddedTeamIds : (TeamExists(t) /\ ItemDocs(t) = {}) ~> (ItemDocs(t) # {})

\* A team added by addTeam has the four items of its default catalog, which
\* the backfill batch of the team listener wrote.
NewTeamHasCatalog ==
  /\ last.op = "backfillCommit"
  /\ \E d \in sTeams : /\ d.id >= FirstFreeId
                       /\ d.name = "Corazones"
                       /\ {x.name : x \in ItemDocs(d.id)} = {"Chico", "Mediano", "Grande", "Mini"}


(***************************************************************************)
(* The facade scenario: two teams, one of them with an employee and an     *)
(* entry; one of addTeam, deleteTeam, addEmployee and deleteEmployee is    *)
(* called, each of its awaits resolves or is rejected, and the             *)
(* notifications are delivered in any order.                               *)
(***************************************************************************)
FacadeOps == 1

InitFacade ==
  /\ sTeams = {Team1, Team2}
  /\ sItems = {Item(3, 1, "Chico", 10), Item(4, 2, "Blanca", 13)}
  /\ sEmps = {Emp(6, 2)}
  /\ sEntries = {Entry(9, 2, 6, 4, 0, 20)}
  /\ nextId = FirstFreeId
  /\ Settled(FacadeOps)

NextFacade ==
  \/ AddTeam("Hojas")
  \/ AddTeamRejected("Hojas")
  \/ \E t \in Ids(teams) : DeleteTeamStart(t)
  \/ \E k \in 1..Len(dt) : DeleteTeamReadItems(k)
  \/ \E k \in 1..Len(dt) : DeleteTeamReadEmployees(k)
  \/ \E k \in 1..Len(dt) : DeleteTeamReadProduction(k)
  \/ \E k \in 1..Len(dt) : DeleteTeamCommit(k)
  \/ \E k \in 1..Len(dt) : DeleteTeamRejected(k)
  \/ \E t \in Ids(teams) : AddEmployeeStart(t)
  \/ \E k \in 1..Len(ae) : AddEmployeeDoc(k)
  \/ \E k \in 1..Len(ae) : AddEmployeeEntries(k)
  \/ \E k \in 1..Len(ae) : AddEmployeeRejected(k)
  \/ \E x \in Range(employees) : DeleteEmployeeStart(x.id, x.teamId)
  \/ \E k \in 1..Len(de) : DeleteEmployeeRead(k)
  \/ \E k \in 1..Len(de) : DeleteEmployeeCommit(k)
  \/ \E k \in 1..Len(de) : DeleteEmployeeDoc(k)
  \/ \E k \in 1..Len(de) : DeleteEmployeeRejected(k)
  \/ TeamsSnapshot
  \/ \E k \in 1..Len(handlers) : BackfillRead(k)
  \/ \E k \in 1..Len(handlers) : BackfillCommit(k)
  \/ \E t \in DOMAIN itemSubs : ItemsSnapshot(t)
  \/ \E t \in DOMAIN empSubs : EmployeesSnapshot(t)
  \/ \E p \in DOMAIN prodSubs : ProductionSnapshot(p[1], p[2])
  \/ Render
  \/ RunEffects

SpecFacade == InitFacade /\ [][NextFacade]_vars

\* A step in which an await of one of the four operations is rejected: the
\* operation ends and the backing store is as it was.
FacadeRejection ==
  /\ UNCHANGED storeVars
  /\ \/ Len(dt') < Len(dt) /\ "failed" \in DOMAIN last'
     \/ Len(de') < Len(de) /\ "failed" \in DOMAIN last'
     \/ Len(ae') < Len(ae) /\ "failed" \in DOMAIN last'
     \/ opsLeft' = opsLeft - 1 /\ last'.op = "addTeam"

\* C24 (as claimed): every step in which a read or a write of addEmployee,
\* deleteEmployee, addTeam or deleteTeam is rejected emits exactly one error
\* event, ends the call rejected (the error reaches the caller), and leaves
\* every subscription as it was.
FacadeRethrows ==
  [][FacadeRejection =>
       /\ Len(errors') = Len(errors) + 1
       /\ SubSeq(errors', 1, Len(errors)) = errors
       /\ last'.outcome = "rejected"
       /\ UNCHANGED subVars]_vars



(***************************************************************************)
(* The isolation scenario: two teams, each with an item, an employee and   *)
(* an entry; error callbacks of item, employee and production listeners    *)
(* fire, employees are added and deleted, and the notifications of the     *)
(* listeners that are still open are delivered in any order.               *)
(***************************************************************************)
IsolateOps == 2

InitIsolate ==
  /\ sTeams = {Team1, Team2}
  /\ sItems = {Item(3, 1, "Chico", 10), Item(4, 2, "Blanca", 13)}
  /\ sEmps = {Emp(5, 1), Emp(6, 2)}
  /\ sEntries = {Entry(8, 1, 5, 3, 0, 3), Entry(9, 2, 6, 4, 0, 20)}
  /\ nextId = FirstFreeId
  /\ Settled(IsolateOps)

NextIsolate ==
  \/ \E t \in DOMAIN itemSubs : ItemsSnapshotError(t)
  \/ \E t \in DOMAIN empSubs : EmployeesSnapshotError(t)
  \/ \E p \in DOMAIN prodSubs : ProductionSnapshotError(p[1], p[2])
  \/ TeamsSnapshotError
  \/ \E t \in Ids(teams) : AddEmployeeStart(t)
  \/ \E k \in 1..Len(ae) : AddEmployeeDoc(k)
  \/ \E k \in 1..Len(ae) : AddEmployeeEntries(k)
  \/ \E x \in Range(employees) : DeleteEmployeeStart(x.id, x.teamId)
  \/ \E k \in 1..Len(de) : DeleteEmployeeRead(k)
  \/ \E k \in 1..Len(de) : DeleteEmployeeCommit(k)
  \/ \E k \in 1..Len(de) : DeleteEmployeeDoc(k)
  \/ \E t \in DOMAIN empSubs : EmployeesSnapshot(t)
  \/ \E p \in DOMAIN prodSubs : ProductionSnapshot(p[1], p[2])
  \/ Render
  \/ RunEffects

SpecIsolate == InitIsolate /\ [][NextIsolate]_vars

ErrorOps == {"itemsSnapshotError", "employeesSnapshotError", "productionSnapshotError"}

SnapshotErrorStep == opsLeft' = opsLeft - 1 /\ last'.op \in ErrorOps

\* The path of the subscription an error step is about.
FailedPath(l) ==
  IF l.op = "itemsSnapshotError" THEN ItemsPath(l.team)
  ELSE IF l.op = "employeesSnapshotError" THEN EmployeesPath(l.team)
  ELSE ProductionPath(l.team, l.employee)

\* What an item or employee subscription whose error callback fired had
\* delivered is still in what the listeners last passed to the Aggregate
\* Store.
StaleSlicesPresent ==
  /\ \A t \in DOMAIN itemSubs :
       IsDead(itemSubs[t]) => Range(itemSubs[t].docs) \subseteq Range(PublishedItems)
  /\ \A t \in DOMAIN empSubs :
       IsDead(empSubs[t]) => Range(empSubs[t].docs) \subseteq Range(PublishedEmployees)

\* The same for every subscription, production subscriptions included.
StalePresent ==
  /\ StaleSlicesPresent
  /\ \A p \in DOMAIN prodSubs :
       IsDead(prodSubs[p]) => Range(prodSubs[p].docs) \subseteq Range(PublishedProduction)

\* The same, the entries of a failed production subscription being kept for
\* as long as the employee listener of the team has not reported their
\* employee removed.
StaleUntilRemoved ==
  /\ StaleSlicesPresent
  /\ \A p \in DOMAIN prodSubs :
       (IsDead(prodSubs[p]) /\ p[2] \in Ids(PublishedEmployees))
         => Range(prodSubs[p].docs) \subseteq Range(PublishedProduction)

\* A step in which an error callback fires emits exactly one "list" event
\* with the path of its subscription, changes nothing in the Aggregate Store
\* or in what is queued for it, and leaves every other subscription as it
\* was, open.
ErrorStepIsolated ==
  SnapshotErrorStep =>
    /\ Len(errors') = Len(errors) + 1
    /\ SubSeq(errors', 1, Len(errors)) = errors
    /\ errors'[Len(errors')] = [operation |-> "list", path |-> FailedPath(last')]
    /\ UNCHANGED <<aggVars, queued, allItems, allEmployees, allProduction, teamsSub>>
    /\ \A t \in DOMAIN itemSubs :
         (last'.op = "itemsSnapshotError" /\ last'.team = t)
           \/ itemSubs'[t] = itemSubs[t]
    /\ \A t \in DOMAIN empSubs :
         (last'.op = "employeesSnapshotError" /\ last'.team = t)
           \/ empSubs'[t] = empSubs[t]
    /\ \A q \in DOMAIN prodSubs :
         (last'.op = "productionSnapshotError" /\ q = <<last'.team, last'.employee>>)
           \/ prodSubs'[q] = prodSubs[q]

\* C25 (as claimed): a step in which the error callback of an item, employee
\* or production subscription fires emits exactly one "list" event with that
\* subscription's path, changes nothing in the Aggregate Store and leaves
\* every other subscription as it was, open; and in every state the records
\* such a subscription had delivered are still in the Aggregate Store.
SnapshotErrorKeepsRecords ==
  /\ StalePresent
  /\ [][StalePresent' /\ ErrorStepIsolated]_vars

\* C25 (amended): as above, except that the entries a failed production
\* subscription had delivered are in the Aggregate Store for as long as
\* their employee is: the employee listener of the team, when it reports
\* the employee removed, removes the employee's entries with it.
SnapshotErrorIsolated ==
  /\ StaleUntilRemoved
  /\ [][StaleUntilRemoved' /\ ErrorStepIsolated]_vars

\* The item listener of team 1 has failed; afterwards an employee was added
\* to team 2 and the employee listener of team 2 delivered it, while item 3
\* of team 1 is still in the Aggregate Store.
OthersKeptUpdating ==
  /\ IsDead(itemSubs[Team1.id])
  /\ last.op = "employeesSnapshot" /\ last.team = Team2.id /\ last.added # {}
  /\ Len(errors) = 1 /\ errors[1].path = ItemsPath(Team1.id)
  /\ \E k \in 1..Len(items) : items[k].id = 3
  /\ \E k \in 1..Len(PublishedItems) : PublishedItems[k].id = 3
  /\ \E k \in 1..Len(PublishedEmployees) : PublishedEmployees[k].id >= FirstFreeId


(***************************************************************************)
(* Production subscriptions of the employees.                              *)
(***************************************************************************)
\* C27: in every state, every employee in what the employee subscription of
\* a current team has delivered last (so delivered by some snapshot and not
\* removed since) has an open subscription on its dailyProduction
\* collection, whether the employee came with the first snapshot or with a
\* later one.
EveryEmployeeSubscribed ==
  \A t \in DOMAIN empSubs :
    \A e \in Ids(empSubs[t].docs) :
      <<t, e>> \in DOMAIN prodSubs /\ ~IsDead(prodSubs[<<t, e>>])

\* An employee added after the first snapshot of its team: its production
\* listener, opened by the later employee snapshot, has delivered the six
\* entries addEmployee created.
LateEmployeeDelivered ==
  /\ last.op = "productionSnapshot"
  /\ last.employee >= FirstFreeId
  /\ prodSubs[<<last.team, last.employee>>].got
  /\ Len(prodSubs[<<last.team, last.employee>>].docs) = LastDayOffset + 1
  /\ \E k \in 1..Len(PublishedProduction) :
       PublishedProduction[k].employeeId = last.employee


\* The employees an employee snapshot has reported as removed: a production
\* listener was opened for them and their team's last snapshot no longer
\* holds them.
RemovedEmployees ==
  {p[2] : p \in {q \in DOMAIN prodSubs :
                   /\ q[1] \in DOMAIN empSubs
                   /\ empSubs[q[1]].got
                   /\ q[2] \notin Ids(empSubs[q[1]].docs)}}

\* C28 (as claimed): once an employee snapshot has reported an employee as
\* removed, the production the listeners pass to the Aggregate Store holds
\* no entry of that employee in any later state, whatever snapshots arrive
\* afterwards.
RemovedEmployeeStaysPurged ==
  \A k \in 1..Len(PublishedProduction) :
    PublishedProduction[k].employeeId \notin RemovedEmployees


(***************************************************************************)
(* The loading flag.                                                       *)
(***************************************************************************)
\* C29 (as claimed): in every state in which the loading flag is false, the
\* team subscription has delivered a snapshot, the item and the employee
\* subscription of every current team have each delivered one, and so has
\* the production subscription of every employee of those teams.
LoadedMeansAllDelivered ==
  ~loading =>
    /\ teamsSub.got
    /\ \A t \in Ids(teams) :
         /\ t \in DOMAIN itemSubs /\ itemSubs[t].got
         /\ t \in DOMAIN empSubs /\ empSubs[t].got
         /\ \A e \in Ids(empSubs[t].docs) :
              <<t, e>> \in DOMAIN prodSubs /\ prodSubs[<<t, e>>].got


\* The provider after mount: nothing delivered; the team effect set loading,
\* the child-subscription effect, which found no team, cleared it again,
\* and React has rendered both and run the reset effect.
Mounted(budget) ==
  /\ shortWeek = FALSE
  /\ teams = <<>>
  /\ items = <<>>
  /\ employees = <<>>
  /\ production = <<>>
  /\ loading = FALSE
  /\ allItems = <<>>
  /\ allEmployees = <<>>
  /\ allProduction = <<>>
  /\ teamsProcessed = 0
  /\ totalTeams = 0
  /\ teamsSub = [live |-> TRUE, got |-> FALSE, docs |-> <<>>]
  /\ itemSubs = <<>>
  /\ empSubs = <<>>
  /\ prodSubs = <<>>
  /\ handlers = <<>>
  /\ localRates = InitialRates(<<>>)
  /\ localProduction = <<>>
  /\ hasChanges = FALSE
  /\ savedClean = FALSE
  /\ queued = NoUpdates
  /\ due = {}
  /\ dt = <<>>
  /\ de = <<>>
  /\ ae = <<>>
  /\ sv = <<>>
  /\ errors = <<>>
  /\ last = [op |-> "init"]
  /\ opsLeft = budget

(***************************************************************************)
(* The first load: the provider has just mounted over a backing store with *)
(* team 1 (one item, employee 5 with one entry) and team 2, which has      *)
(* neither employees nor a catalog yet.                                    *)
(***************************************************************************)
InitLoad ==
  /\ shortWeek = FALSE
  /\ sTeams = {Team1, Team2}
  /\ sItems = {Item(3, 1, "Chico", 10)}
  /\ sEmps = {Emp(5, 1)}
  /\ sEntries = {Entry(8, 1, 5, 3, 0, 3)}
  /\ nextId = FirstFreeId
  /\ teams = <<>>
  /\ items = <<>>
  /\ employees = <<>>
  /\ production = <<>>
  /\ loading = FALSE
  /\ allItems = <<>>
  /\ allEmployees = <<>>
  /\ allProduction = <<>>
  /\ teamsProcessed = 0
  /\ totalTeams = 0
  /\ teamsSub = [live |-> TRUE, got |-> FALSE, docs |-> <<>>]
  /\ itemSubs = <<>>
  /\ empSubs = <<>>
  /\ prodSubs = <<>>
  /\ handlers = <<>>
  /\ localRates = InitialRates(<<>>)
  /\ localProduction = <<>>
  /\ hasChanges = FALSE
  /\ savedClean = FALSE
  /\ queued = NoUpdates
  /\ due = {}
  /\ dt = <<>>
  /\ de = <<>>
  /\ ae = <<>>
  /\ sv = <<>>
  /\ errors = <<>>
  /\ last = [op |-> "init"]
  /\ opsLeft = 0

\* The steps the event loop owes: a notification the backend has to deliver,
\* or a server read or batch commit of the team listener that returns.
NextLoad ==
  \/ TeamsSnapshot
  \/ \E k \in 1..Len(handlers) : BackfillRead(k)
  \/ \E k \in 1..Len(handlers) : BackfillCommit(k)
  \/ \E t \in DOMAIN itemSubs : ItemsSnapshot(t)
  \/ \E t \in DOMAIN empSubs : EmployeesSnapshot(t)
  \/ \E p \in DOMAIN prodSubs : ProductionSnapshot(p[1], p[2])
  \/ Render
  \/ RunEffects

SpecLoad == InitLoad /\ [][NextLoad]_vars

\* The team notification, the reads and the commit of the team listener and
\* the employee and production notifications are eventually delivered; the
\* flag does not wait for an item notification, so none is assumed.
SpecLoadFair ==
  /\ SpecLoad
  /\ WF_vars(Render)
  /\ WF_vars(RunEffects)
  /\ WF_vars(TeamsSnapshot)
  /\ WF_vars(\E k \in 1..Len(handlers) : BackfillRead(k))
  /\ WF_vars(\E k \in 1..Len(handlers) : BackfillCommit(k))
  /\ WF_vars(\E t \in DOMAIN empSubs : EmployeesSnapshot(t))
  /\ WF_vars(\E p \in DOMAIN prodSubs : ProductionSnapshot(p[1], p[2]))

\* Some team shown has no employee in the backing store.
EmptyTeamShown == \E t \in Ids(teams) : EmpSnapshot(t) = <<>>

\* Every subscription of a shown team that has documents to deliver has
\* delivered its first snapshot.
NonEmptyDelivered ==
  /\ teamsSub.got
  /\ \A t \in Ids(teams) :
       /\ ItemSnapshot(t) # <<>> => itemSubs[t].got
       /\ EmpSnapshot(t) # <<>> =>
            /\ empSubs[t].got
            /\ \A e \in Ids(EmpSnapshot(t)) :
                 /\ <<t, e>> \in DOMAIN prodSubs
                 /\ EntrySnapshot(t, e) # <<>> => prodSubs[<<t, e>>].got

\* C30: whenever the flag is still set while some shown team has no
\* employees and every subscription that has documents to deliver has
\* delivered its first snapshot, the loading flag is eventually false.
EmptyTeamDoesNotBlock ==
  (loading /\ EmptyTeamShown /\ NonEmptyDelivered) ~> ~loading

\* The empty employee snapshot of a team without employees has been
\* counted with the rest and the flag it cleared has been rendered, while
\* the team listener, which found a catalog missing, has not finished and
\* so has not cleared it.
EmptyTeamSettled ==
  /\ last.op = "render"
  /\ EmptyTeamShown
  /\ ~loading
  /\ totalTeams = 2 /\ teamsProcessed = totalTeams
  /\ Len(handlers) = 1 /\ handlers[1].pc = "commit"


(***************************************************************************)
(* Cancellation and teardown of the subscription tree.                     *)
(***************************************************************************)
\* Every live child listener was opened by the last run of the effect:
\* unless the effect is due to run again, item and employee listeners are
\* those of the teams shown, and a production listener hangs under an
\* employee listener that has delivered.
OpenedByCurrentRun ==
  /\ "child" \notin due =>
       DOMAIN itemSubs \subseteq Ids(teams) /\ DOMAIN empSubs \subseteq Ids(teams)
  /\ DOMAIN itemSubs = DOMAIN empSubs
  /\ \A p \in DOMAIN prodSubs : p[1] \in DOMAIN empSubs /\ empSubs[p[1]].got

\* No two live listeners write the same slice of the closure arrays: the
\* teams shown have distinct ids, and no employee id has two production
\* listeners.
OneWriterPerSlice ==
  /\ NoDupIds(teams)
  /\ \A p, q \in DOMAIN prodSubs : p[2] = q[2] => p = q

\* C31: in every state each live listener belongs to the last run of the
\* child-subscription effect and each slice of the Aggregate Store has one
\* writer; and the run of the effect that follows a change of the team set
\* leaves no listener of the previous run open: it subscribes to the teams
\* shown, the listeners of the new state have delivered nothing yet and
\* there is no production listener.
CancelBeforeReplace ==
  /\ OpenedByCurrentRun /\ OneWriterPerSlice
  /\ [][/\ OpenedByCurrentRun' /\ OneWriterPerSlice'
        /\ ChildEffectRan =>
             /\ DOMAIN itemSubs' = Ids(teams) /\ DOMAIN empSubs' = Ids(teams)
             /\ \A t \in DOMAIN itemSubs' : ~itemSubs'[t].got
             /\ \A t \in DOMAIN empSubs' : ~empSubs'[t].got
             /\ prodSubs' = <<>>]_vars

\* Team 1 was deleted while employee 6 of team 2 had a production listener:
\* that listener was cancelled with the rest, and the employee listener of
\* the new run has opened the one listener on that path again.
ReplacedAfterCancel ==
  /\ last.op = "employeesSnapshot" /\ last.team = Team2.id
  /\ Ids(teams) = {Team2.id}
  /\ last.added = {6}
  /\ DOMAIN prodSubs = {<<Team2.id, 6>>}
  /\ ~prodSubs[<<Team2.id, 6>>].got


\* The provider is discarded, which happens once, whether or not the team
\* listener has failed before: the cleanup of the team effect cancels the
\* team listener and the cleanup of the child-subscription effect cancels
\* every listener in unsubscribers.  Neither cleanup touches a handler of a
\* team notification that is suspended in an await.  What was queued is
\* never rendered and the effects that were due never run.
Unmount ==
  /\ ~Discarded
  /\ teamsSub' = [live |-> FALSE, got |-> teamsSub.got, docs |-> teamsSub.docs,
                  discarded |-> TRUE]
  /\ itemSubs' = <<>>
  /\ empSubs' = <<>>
  /\ prodSubs' = <<>>
  /\ queued' = NoUpdates
  /\ due' = {}
  /\ last' = [op |-> "unmount", suspended |-> Len(handlers)]
  /\ UNCHANGED <<storeVars, aggVars, allItems, allEmployees, allProduction, teamsProcessed,
                 totalTeams, draftVars, procVars, errors, opsLeft>>
  /\ UNCHANGED shortWeek

\* Errors of the team listener in one run of the teardown scenario.
TeardownOps == 1

InitTeardown ==
  /\ sTeams = {Team1, Team2}
  /\ sItems = {Item(3, 1, "Chico", 10)}
  /\ sEmps = {Emp(5, 1)}
  /\ sEntries = {Entry(8, 1, 5, 3, 0, 3)}
  /\ nextId = FirstFreeId
  /\ Mounted(TeardownOps)

\* The first load of a provider that may be discarded at any moment, before
\* or after the error callback of its team listener.
NextTeardown ==
  \/ Unmount
  \/ TeamsSnapshot
  \/ TeamsSnapshotError
  \/ \E k \in 1..Len(handlers) : BackfillRead(k)
  \/ \E k \in 1..Len(handlers) : BackfillCommit(k)
  \/ \E t \in DOMAIN itemSubs : ItemsSnapshot(t)
  \/ \E t \in DOMAIN empSubs : EmployeesSnapshot(t)
  \/ \E p \in DOMAIN prodSubs : ProductionSnapshot(p[1], p[2])
  \/ Render
  \/ RunEffects

SpecTeardown == InitTeardown /\ [][NextTeardown]_vars

\* C32 (as claimed): once the provider is discarded no subscription it
\* opened is live, and no later step changes the teams, items, employees or
\* production of the Aggregate Store or writes to the backing store.
QuietAfterTeardown ==
  /\ Discarded => itemSubs = <<>> /\ empSubs = <<>> /\ prodSubs = <<>>
  /\ [][Discarded =>
          /\ Discarded'
          /\ itemSubs' = <<>> /\ empSubs' = <<>> /\ prodSubs' = <<>>
          /\ UNCHANGED <<teams, items, employees, production>>
          /\ UNCHANGED storeVars]_vars


(***************************************************************************)
(* Re-entrancy of the team listener: its writes cause notifications, and   *)
(* a notification may cause a write.                                       *)
(***************************************************************************)
\* The rejected-seed scenario: the provider is mounted on the empty store
\* by a client whose batch commits the backend rejects.  The team listener
\* delivers the notification without teams, the seeding branch runs, its
\* commit and the commit of the backfill pass are rejected, and the child
\* listeners deliver.
NextSeedRejected ==
  \/ TeamsSnapshotEmpty
  \/ \E k \in 1..Len(handlers) : SeedReadEmpty(k)
  \/ \E k \in 1..Len(handlers) : SeedCommitRejected(k)
  \/ \E k \in 1..Len(handlers) : BackfillRead(k)
  \/ \E k \in 1..Len(handlers) : BackfillCommitRejected(k)
  \/ \E t \in DOMAIN itemSubs : ItemsSnapshot(t)
  \/ \E t \in DOMAIN empSubs : EmployeesSnapshot(t)
  \/ Render
  \/ RunEffects

SpecSeedRejected == InitSeed /\ [][NextSeedRejected]_vars

\* No handler of a team notification is in flight and no team notification
\* is owed: nothing is left that could issue a write.
Quiescent ==
  /\ handlers = <<>>
  /\ ~Pending(teamsSub, TeamSnapshot)

\* What a seeding handler may still cause after its commit: its own
\* backfill pass over the default teams, the notification of the teams it
\* wrote, and the backfill pass of that notification's handler.
SeedWork == 2 * Len(DefaultTeams) + 4

\* The steps a handler may still take, those of the notification its seed
\* commit causes included.
HandlerWork(h) ==
  IF h.pc = "seedRead" THEN SeedWork + 1
  ELSE IF h.pc = "seedCommit" THEN SeedWork
  ELSE IF h.pc = "backfill" THEN Len(h.todo) + 1
  ELSE 1

RECURSIVE TotalWork(_)
TotalWork(hs) == IF hs = <<>> THEN 0 ELSE HandlerWork(Head(hs)) + TotalWork(Tail(hs))

\* The steps an owed team notification stands for: its delivery and the
\* handler it starts.
NotificationWork ==
  IF teamsSub.live /\ Pending(teamsSub, TeamSnapshot)
    THEN IF TeamSnapshot = <<>> THEN SeedWork + 2 ELSE Len(TeamSnapshot) + 2
    ELSE 0

ChainVariant == NotificationWork + TotalWork(handlers)

\* A step of the team listener: a team notification is delivered, or a
\* server read or a batch commit of one of its handlers returns.
ListenerStep == handlers' # handlers \/ teamsSub' # teamsSub

\* C33: in the re-entrancy scenarios, in which nothing but the provider
\* writes, every step of the team listener lowers a natural-number measure
\* of the notifications owed and the handler steps outstanding, the
\* notification a seed commit causes counted in; so the chain of
\* notification, write and notification is finite, the seeder and the
\* backfill pass commit finitely many batches, and the run ends in a state
\* with no handler in flight and no team notification owed.
ReentrancyTerminates == [][ListenerStep => ChainVariant' < ChainVariant]_vars

\* The chain has run: the notification of the added team was handled and
\* a backfill pass wrote its catalog, and the last pass of a handler found
\* the catalog in place and ended without a write.
ChainEnded ==
  /\ Quiescent
  /\ last.op = "backfillRead"
  /\ teamsSub.docs # <<>>
  /\ teamsSub.docs = TeamSnapshot
  /\ \A d \in sTeams : ItemDocs(d.id) # {}

(***************************************************************************)
(* Subscriptions follow the team list.                                     *)
(***************************************************************************)
\* The step in which the handler of a team notification calls setTeams: the
\* delivery itself for a notification with teams; the return of the server
\* read that found teams or of the seed commit for a notification without.
SetTeamsStep ==
  \/ last'.op = "teamsSnapshot" /\ "empty" \notin DOMAIN last'
  \/ last'.op = "seedRead" /\ last'.read = "found"
  \/ last'.op = "seedCommit"

\* The list the handler passes to setTeams: the teams of the notification,
\* the teams the server read returned, or the teams of its seed batch.
SetsHandlerTeams ==
  /\ "teams" \in DOMAIN queued'
  /\ IF last'.op = "teamsSnapshot" THEN queued'.teams = teamsSub'.docs
     ELSE IF last'.op = "seedRead" THEN queued'.teams = TeamSnapshot
     ELSE \E k \in 1..Len(handlers) :
            handlers[k].pc = "seedCommit" /\ queued'.teams = handlers[k].newTeams

\* After the step the teams of ts, and no other team, have an item and an
\* employee subscription, each opened by this step, and no listener of the
\* previous run is left.
SubscribedExactly(ts) ==
  /\ DOMAIN itemSubs' = Ids(ts) /\ DOMAIN empSubs' = Ids(ts)
  /\ \A t \in Ids(ts) : itemSubs'[t] = NotYet /\ empSubs'[t] = NotYet
  /\ prodSubs' = <<>>

\* Every team notification delivered so far has been processed: its handler
\* has run to its end, the teams it passed to setTeams have been rendered
\* and the child-subscription effect has run for them.
NotificationsProcessed ==
  /\ teamsSub.got
  /\ handlers = <<>>
  /\ DOMAIN queued = {}
  /\ due = {}

\* C26 (as claimed): whenever every team notification delivered so far has
\* been processed, the teams with an item subscription and the teams with
\* an employee subscription are exactly the teams of the notification
\* delivered last.
SubscriptionsMatchNotification ==
  NotificationsProcessed =>
    DOMAIN itemSubs = Ids(teamsSub.docs) /\ DOMAIN empSubs = Ids(teamsSub.docs)

\* C26 (amended): the step in which the handler of a team notification
\* calls setTeams passes a list of distinct teams (the notification's
\* teams, or for a notification without teams those its server read
\* returned or those it seeded); each run of the child-subscription effect
\* cancels every subscription of the previous run and opens one item and
\* one employee subscription for each team of the Aggregate Store; so in
\* every state in which that effect is not due, the teams with an item
\* subscription and the teams with an employee subscription are exactly
\* the teams of the Aggregate Store.
SubscriptionsMatchTeams ==
  /\ "child" \notin due => DOMAIN itemSubs = Ids(teams) /\ DOMAIN empSubs = Ids(teams)
  /\ [][/\ SetTeamsStep => SetsHandlerTeams /\ NoDupIds(queued'.teams)
        /\ ChildEffectRan => SubscribedExactly(teams)]_vars

\* The handler of the notification without teams went on with the team its
\* late read returned, and the child-subscription effect has run for the
\* list it passed: the team has its two subscriptions while the
\* notification delivered last shows no team.
ReadTeamsSubscribed ==
  /\ last.op \in {"render", "effects"} /\ "child" \in last.ran
  /\ teamsSub.docs = <<>>
  /\ teams # <<>>
  /\ DOMAIN itemSubs = Ids(teams) /\ DOMAIN empSubs = Ids(teams)
  /\ \A t \in Ids(teams) : itemSubs[t] = NotYet /\ empSubs[t] = NotYet


(***************************************************************************)
(* Interleaved handlers of team notifications.                             *)
(***************************************************************************)
\* The team a user added to the empty store, with the ids the store gave it
\* and its default catalog.
AddedTeam == [id |-> FirstFreeId, name |-> "Hojas"]

\* A provider that was mounted on the empty store and shows AddedTeam, with
\* sub the state of its team listener, open the teams whose child listeners
\* are open and have delivered, hs the handlers of team notifications that
\* are suspended in an await, and errs the error events so far.
MidRun(sub, open, hs, errs) ==
  /\ shortWeek = FALSE
  /\ nextId = FirstFreeId + 1 + Len(DefaultItems(AddedTeam.name))
  /\ sEmps = {}
  /\ sEntries = {}
  /\ teams = <<AddedTeam>>
  /\ allItems = ConcatItems(teams)
  /\ items = DedupById(allItems)
  /\ allEmployees = <<>>
  /\ employees = <<>>
  /\ allProduction = <<>>
  /\ production = <<>>
  /\ loading = FALSE
  /\ teamsProcessed = 1
  /\ totalTeams = 1
  /\ teamsSub = sub
  /\ itemSubs = [t \in open |-> Got(ItemSnapshot(t))]
  /\ empSubs = [t \in open |-> Got(EmpSnapshot(t))]
  /\ prodSubs = <<>>
  /\ handlers = hs
  /\ localRates = InitialRates(items)
  /\ localProduction = <<>>
  /\ hasChanges = FALSE
  /\ savedClean = FALSE
  /\ queued = NoUpdates
  /\ due = {}
  /\ dt = <<>>
  /\ de = <<>>
  /\ ae = <<>>
  /\ sv = <<>>
  /\ errors = errs
  /\ last = [op |-> "init"]
  /\ opsLeft = 0

\* The stale-handler scenario.  The provider was mounted on the empty store
\* and the handler of the empty team notification is still suspended in its
\* server read.  Meanwhile addTeam("Hojas") resolved, the notification with
\* that team was delivered and handled, its backfill pass wrote the catalog,
\* the child listeners delivered, and then the error callback of the team
\* listener fired: no later team notification will be delivered.
InitStale ==
  /\ sTeams = {AddedTeam}
  /\ sItems = CatalogDocs(AddedTeam, FirstFreeId + 1)
  /\ MidRun([live |-> FALSE, got |-> TRUE, docs |-> <<AddedTeam>>], {AddedTeam.id},
            <<[pc |-> "seedRead"]>>, <<[operation |-> "list", path |-> TeamsPath]>>)

\* The suspended handler goes on: its read may succeed or fail, and the
\* backend, which has withdrawn the client's access, rejects each of its
\* commits; the child listeners it opens deliver.
NextStale ==
  \/ \E k \in 1..Len(handlers) : SeedReadFound(k)
  \/ \E k \in 1..Len(handlers) : SeedReadFailed(k)
  \/ \E k \in 1..Len(handlers) : SeedCommitRejected(k)
  \/ \E k \in 1..Len(handlers) : BackfillRead(k)
  \/ \E k \in 1..Len(handlers) : BackfillCommitRejected(k)
  \/ \E t \in DOMAIN itemSubs : ItemsSnapshot(t)
  \/ \E t \in DOMAIN empSubs : EmployeesSnapshot(t)
  \/ Render
  \/ RunEffects

SpecStale == InitStale /\ [][NextStale]_vars

\* C34 (as claimed, for a latest notification that shows at least one
\* team): whenever every handler of a delivered team notification has run
\* to completion, the Aggregate Store's teams are the teams of the team
\* notification delivered last.
LatestTeamsWin ==
  (handlers = <<>> /\ teamsSub.got /\ teamsSub.docs # <<>>) => teams = teamsSub.docs


\* The orphaned-handlers scenario.  The collection was empty at mount; the
\* user added a team and deleted it again, so two empty team notifications
\* were delivered, and every other notification, the handler of the
\* one-team notification and both user calls have run to their end.  Then
\* the provider was discarded with the handlers of the two empty
\* notifications still suspended in their server reads.
InitOrphan ==
  /\ sTeams = {}
  /\ sItems = {}
  /\ MidRun([live |-> FALSE, got |-> TRUE, docs |-> <<>>, discarded |-> TRUE], {},
            <<[pc |-> "seedRead"], [pc |-> "seedRead"]>>, <<>>)

\* The two handlers go on after the discard: each read and each commit may
\* succeed or fail.  No listener is open, so nothing is delivered.
NextOrphan ==
  \/ \E k \in 1..Len(handlers) : SeedReadFound(k)
  \/ \E k \in 1..Len(handlers) : SeedReadEmpty(k)
  \/ \E k \in 1..Len(handlers) : SeedReadFailed(k)
  \/ \E k \in 1..Len(handlers) : SeedCommit(k)
  \/ \E k \in 1..Len(handlers) : SeedCommitRejected(k)
  \/ \E k \in 1..Len(handlers) : BackfillRead(k)
  \/ \E k \in 1..Len(handlers) : BackfillCommit(k)
  \/ \E k \in 1..Len(handlers) : BackfillReadRejected(k)
  \/ \E k \in 1..Len(handlers) : BackfillCommitRejected(k)

SpecOrphan == InitOrphan /\ [][NextOrphan]_vars

\* The late-read scenario.  The provider was mounted on the empty
\* collection; the team listener delivered the notification without teams
\* and its handler is suspended in its server read.  Meanwhile the user
\* added team Hojas: the team is in the backing store, without a catalog
\* yet, and the notification that shows it is owed.
InitLate ==
  /\ shortWeek = FALSE
  /\ sTeams = {AddedTeam}
  /\ sItems = {}
  /\ sEmps = {}
  /\ sEntries = {}
  /\ nextId = FirstFreeId + 1
  /\ teams = <<>>
  /\ items = <<>>
  /\ employees = <<>>
  /\ production = <<>>
  /\ loading = FALSE
  /\ allItems = <<>>
  /\ allEmployees = <<>>
  /\ allProduction = <<>>
  /\ teamsProcessed = 0
  /\ totalTeams = 0
  /\ teamsSub = [live |-> TRUE, got |-> TRUE, docs |-> <<>>]
  /\ itemSubs = <<>>
  /\ empSubs = <<>>
  /\ prodSubs = <<>>
  /\ handlers = <<[pc |-> "seedRead"]>>
  /\ localRates = InitialRates(<<>>)
  /\ localProduction = <<>>
  /\ hasChanges = FALSE
  /\ savedClean = FALSE
  /\ queued = NoUpdates
  /\ due = {}
  /\ dt = <<>>
  /\ de = <<>>
  /\ ae = <<>>
  /\ sv = <<>>
  /\ errors = <<>>
  /\ last = [op |-> "init"]
  /\ opsLeft = 0

\* The owed notification is delivered and handled, the suspended handler
\* goes on with the teams its read returns, each handler runs its backfill
\* pass, and the child listeners deliver; nothing fails.
NextLate ==
  \/ TeamsSnapshot
  \/ \E k \in 1..Len(handlers) : SeedReadFound(k)
  \/ \E k \in 1..Len(handlers) : BackfillRead(k)
  \/ \E k \in 1..Len(handlers) : BackfillCommit(k)
  \/ \E t \in DOMAIN itemSubs : ItemsSnapshot(t)
  \/ \E t \in DOMAIN empSubs : EmployeesSnapshot(t)
  \/ Render
  \/ RunEffects

SpecLate == InitLate /\ [][NextLate]_vars

\* The re-entrancy scenarios, in which nothing fails: the late-read
\* scenario, in which the handlers of two team notifications write under a
\* mounted provider and the notifications of their writes are delivered,
\* and the orphaned-handlers scenario, in which the handlers seed.
NextChain ==
  \/ TeamsSnapshot
  \/ \E k \in 1..Len(handlers) : SeedReadFound(k)
  \/ \E k \in 1..Len(handlers) : SeedReadEmpty(k)
  \/ \E k \in 1..Len(handlers) : SeedCommit(k)
  \/ \E k \in 1..Len(handlers) : BackfillRead(k)
  \/ \E k \in 1..Len(handlers) : BackfillCommit(k)
  \/ \E t \in DOMAIN itemSubs : ItemsSnapshot(t)
  \/ \E t \in DOMAIN empSubs : EmployeesSnapshot(t)
  \/ Render
  \/ RunEffects

InitChain == InitLate \/ InitOrphan

SpecChain == InitChain /\ [][NextChain]_vars

\* C35 (as claimed): the backing store never holds a default team twice:
\* however the handlers of two empty team notifications interleave, the
\* default teams are written at most once.
SeedsAtMostOnce ==
  \A n \in 1..Len(DefaultTeams) :
    Cardinality({d \in sTeams : d.name = DefaultTeams[n]}) <= 1


\* C36 (as claimed): no item sub-collection of the backing store holds two
\* documents with the same default item name: the seeder and the backfill
\* pass give a team its default catalog at most once, however the handlers
\* of the team notifications interleave.
CatalogAtMostOnce ==
  \A d1, d2 \in sItems : (d1.path = d2.path /\ d1.name = d2.name) => d1 = d2


(***************************************************************************)
(* The dirty flag and the ids of the Draft Overlay.                        *)
(***************************************************************************)
\* No listener owes a notification: what the Aggregate Store shows is what
\* the backing store holds.
NothingOwed ==
  /\ \A t \in DOMAIN itemSubs : ~Pending(itemSubs[t], ItemSnapshot(t))
  /\ \A t \in DOMAIN empSubs : ~Pending(empSubs[t], EmpSnapshot(t))
  /\ \A p \in DOMAIN prodSubs : ~Pending(prodSubs[p], EntrySnapshot(p[1], p[2]))

\* The Draft Overlay holds what the Aggregate Store holds: the rate of each
\* item, the quantity of each stored entry, and 0 in every entry with a
\* locally synthesized id.
OverlayAgrees ==
  /\ \A i \in DOMAIN localRates :
       \E k \in 1..Len(items) : items[k].id = i /\ items[k].payRate = localRates[i]
  /\ \A j \in 1..Len(localProduction) :
       IF IsLocalId(localProduction[j].id)
         THEN localProduction[j].quantity = 0
         ELSE \E k \in 1..Len(production) :
                /\ production[k].id = localProduction[j].id
                /\ production[k].quantity = localProduction[j].quantity

\* C37 (as claimed, for the states in which no notification is owed and
\* nothing is left to render or to run): in every state in which the dirty
\* flag is false the Draft Overlay agrees with the Aggregate Store.
CleanMeansAgreement ==
  (~hasChanges /\ NothingOwed /\ DOMAIN queued = {} /\ due = {}) => OverlayAgrees


(***************************************************************************)
(* The loading flag when listeners fail during the first load.             *)
(***************************************************************************)
\* Listener errors in one run of the failing first load.
LoadErrorOps == 1

\* Team 1 with an item, employee 5 and one entry; team 2 with neither
\* employees nor a catalog, so the team listener takes the backfill branch.
InitLoadError ==
  /\ sTeams = {Team1, Team2}
  /\ sItems = {Item(3, 1, "Chico", 10)}
  /\ sEmps = {Emp(5, 1)}
  /\ sEntries = {Entry(8, 1, 5, 3, 0, 3)}
  /\ nextId = FirstFreeId
  /\ Mounted(LoadErrorOps)

NextLoadError ==
  \/ \E t \in DOMAIN itemSubs : ItemsSnapshotError(t)
  \/ \E t \in DOMAIN empSubs : EmployeesSnapshotError(t)
  \/ \E p \in DOMAIN prodSubs : ProductionSnapshotError(p[1], p[2])
  \/ TeamsSnapshot
  \/ TeamsSnapshotError
  \/ \E k \in 1..Len(handlers) : BackfillRead(k)
  \/ \E k \in 1..Len(handlers) : BackfillCommit(k)
  \/ \E k \in 1..Len(handlers) : BackfillReadRejected(k)
  \/ \E k \in 1..Len(handlers) : BackfillCommitRejected(k)
  \/ \E t \in DOMAIN itemSubs : ItemsSnapshot(t)
  \/ \E t \in DOMAIN empSubs : EmployeesSnapshot(t)
  \/ \E p \in DOMAIN prodSubs : ProductionSnapshot(p[1], p[2])
  \/ Render
  \/ RunEffects

SpecLoadError == InitLoadError /\ [][NextLoadError]_vars

\* The team notification, the reads and the commit of the team listener and
\* the employee and production notifications of the listeners that are
\* still open are eventually delivered.
SpecLoadErrorFair ==
  /\ SpecLoadError
  /\ WF_vars(Render)
  /\ WF_vars(RunEffects)
  /\ WF_vars(TeamsSnapshot)
  /\ WF_vars(\E k \in 1..Len(handlers) : BackfillRead(k))
  /\ WF_vars(\E k \in 1..Len(handlers) : BackfillCommit(k))
  /\ WF_vars(\E t \in DOMAIN empSubs : EmployeesSnapshot(t))
  /\ WF_vars(\E p \in DOMAIN prodSubs : ProductionSnapshot(p[1], p[2]))

\* C38 (as claimed): in every run of the first load, whenever the loading
\* flag is set it is eventually false again, also when the error callback
\* of a child listener fires before its first snapshot and the team
\* listener takes the backfill branch.
LoadingEventuallyClears == loading ~> ~loading


(***************************************************************************)
(* Entry ids of the overlay, the Aggregate Store and the backing store.    *)
(***************************************************************************)
\* Every overlay entry has the id of an entry of production or a local id.
OverlayIdsKnown ==
  \A k \in 1..Len(localProduction) :
    IsLocalId(localProduction[k].id) \/ localProduction[k].id \in Ids(production)

\* No stored or aggregated entry has a local id.
NoLocalIdStored ==
  /\ \A d \in sEntries : ~IsLocalId(d.id)
  /\ \A k \in 1..Len(production) : ~IsLocalId(production[k].id)
  /\ \A k \in 1..Len(allProduction) : ~IsLocalId(allProduction[k].id)

\* production.find(p => p.id === entry.id) finds nothing exactly for the
\* overlay entries with a local id.
NewByAbsenceIsNewById ==
  \A k \in 1..Len(localProduction) :
    (FindById(production, localProduction[k].id) = 0) <=> IsLocalId(localProduction[k].id)

\* C39: every overlay entry id is the id of an entry of the Aggregate
\* Store's production or a local placeholder/new id, no entry of the backing
\* store or of the Aggregate Store has a local id, and so an overlay entry
\* is absent from production exactly when its id is local.
LocalIdsStayLocal == OverlayIdsKnown /\ NoLocalIdStored /\ NewByAbsenceIsNewById

\* An entry created by a save has come back under a store id, next to
\* overlay entries with local ids.
SavedEntryReturned ==
  /\ last.op \in {"render", "effects"}
  /\ \E k \in 1..Len(localProduction) :
       /\ ~IsLocalId(localProduction[k].id)
       /\ localProduction[k].id[1] >= FirstFreeId
       /\ localProduction[k].quantity = 2
  /\ \E k \in 1..Len(localProduction) : IsLocalId(localProduction[k].id)

====
